---- MODULE Spec2Model ----
(***************************************************************************)
(* ABC Similarity Engine (tools/abc_similarity_engine.py) and the exit     *)
(* codes of the conformance checker (tools/abc_check.py).                  *)
(*                                                                         *)
(* Conventions of the model                                                *)
(*   - A Python str is a sequence of one-character strings, so that        *)
(*     lower() and re.findall(r'[a-z]+', ...) are computed, not assumed.   *)
(*     The empty str, the empty list and the empty dict are all <<>>.      *)
(*   - A Python dict is a function whose DOMAIN is its key set; d.get(k,v) *)
(*     is Get(d, k, v).  None is the value NoneVal; None where the code    *)
(*     expects a dict is NoneSection.                                      *)
(*   - A float that is the result of round(x, 3) is an integer number of   *)
(*     thousandths (1000 is 1.0).  An unrounded float is an exact rational *)
(*     <<numerator, denominator>> with a positive denominator.  round()    *)
(*     rounds the exact rational to the nearest thousandth, ties to even.  *)
(***************************************************************************)
EXTENDS Integers, Sequences, FiniteSets, TLC

VARIABLES
    api_key,        \* ABCSimilarityEngine.api_key: TRUE when a key is configured
    httpx_ok,       \* whether `import httpx` succeeds in this process
    op,             \* the entry point that was called
    card,           \* find_similar: the query card (raw)
    registry,       \* find_similar: the registry (sequence of raw cards)
    min_score,      \* find_similar: min_score, in thousandths
    max_results,    \* find_similar: max_results
    pc,             \* position of find_similar_async
    idx,            \* find_similar_async: position of `candidate` in registry
    results,        \* find_similar_async: the local list `results`
    cmp,            \* the compare_async frame in progress
    llm,            \* the compute_llm_similarity call in progress / last finished
    ret,            \* the value returned to the caller
    error,          \* the exception that left the entry point, or NoneVal
    prev,           \* the previous call on the same engine
    fn,             \* a direct call of one of the module-level functions
    weights,        \* SimilarityBreakdown.WEIGHTS, the class attribute all instances share
    stdout,         \* the lines the process has printed on standard output
    net             \* the httpx clients that are open, and the requests posted so far

vars == <<api_key, httpx_ok, op, card, registry, min_score, max_results,
          pc, idx, results, cmp, llm, ret, error, prev, fn, weights, stdout, net>>

-----------------------------------------------------------------------------
(* Python values *)

NoneVal == <<"<None>">>

Get(d, k, default) == IF k \in DOMAIN d THEN d[k] ELSE default

\* None where the code expects a dict (a section of a card that is present and null)
NoneSection == [None |-> TRUE]

IsNone(section) == "None" \in DOMAIN section

Range(s) == {s[j] : j \in DOMAIN s}

Max(a, b) == IF a >= b THEN a ELSE b

Min(a, b) == IF a <= b THEN a ELSE b

Abs(a) == IF a >= 0 THEN a ELSE -a

\* F(x), F(x, y): the arguments are bound to their values before F is applied
\* (call by value, as in Python), so an operator that uses an argument several
\* times evaluates it once
Bind1(F(_), x) == CHOOSE r \in {F(t) : t \in {x}} : TRUE

Bind2(F(_, _), x, y) == CHOOSE r \in {F(t[1], t[2]) : t \in {<<x, y>>}} : TRUE

RECURSIVE Gcd(_, _)
Gcd(a, b) == Bind2(LAMBDA p, q : IF q = 0 THEN p ELSE Gcd(q, p % q), a, b)

\* exact rationals <<n, d>>, d > 0, in lowest terms
Rat(n, d) ==
    Bind2(LAMBDA p, q : Bind1(LAMBDA g : <<p \div g, q \div g>>, Gcd(Abs(p), q)), n, d)

RAdd(x, y) == Bind2(LAMBDA u, v : Rat(u[1] * v[2] + v[1] * u[2], u[2] * v[2]), x, y)

RLeq(x, y) == x[1] * y[2] <= y[1] * x[2]

RMax(x, y) == IF RLeq(x, y) THEN y ELSE x

RMin(x, y) == IF RLeq(x, y) THEN x ELSE y

\* round(x, 3) of the rational x, as a number of thousandths
Round3(x) ==
    Bind1(LAMBDA y :
            LET n == 1000 * y[1]
                q == n \div y[2]
                r == n - q * y[2]
            IN  IF 2 * r < y[2] THEN q
                ELSE IF 2 * r > y[2] THEN q + 1
                ELSE IF q % 2 = 0 THEN q ELSE q + 1,
          x)

-----------------------------------------------------------------------------
(* str.lower() and re.findall(r'[a-z]+', s) *)

Alphabet == <<"a", "b", "c", "d", "e", "f", "g", "h", "i", "j", "k", "l", "m",
             "n", "o", "p", "q", "r", "s", "t", "u", "v", "w", "x", "y", "z">>

Capitals == <<"A", "B", "C", "D", "E", "F", "G", "H", "I", "J", "K", "L", "M",
             "N", "O", "P", "Q", "R", "S", "T", "U", "V", "W", "X", "Y", "Z">>

LowerLetters == {Alphabet[j] : j \in DOMAIN Alphabet}

LowerMap == [c \in {Capitals[j] : j \in DOMAIN Capitals} |->
                Alphabet[CHOOSE j \in DOMAIN Capitals : Capitals[j] = c]]

LowerChar(c) == IF c \in DOMAIN LowerMap THEN LowerMap[c] ELSE c

Lower(s) == [j \in DOMAIN s |-> LowerChar(s[j])]

RECURSIVE ScanWords(_, _, _, _)
ScanWords(s, j, cur, acc) ==
    IF j > Len(s)
    THEN IF cur = <<>> THEN acc ELSE Append(acc, cur)
    ELSE IF s[j] \in LowerLetters
         THEN ScanWords(s, j + 1, Append(cur, s[j]), acc)
         ELSE ScanWords(s, j + 1, <<>>, IF cur = <<>> THEN acc ELSE Append(acc, cur))

\* re.findall(r'[a-z]+', s): the maximal runs of lower-case letters, in order
FindAllWords(s) == ScanWords(s, 1, <<>>, <<>>)

-----------------------------------------------------------------------------
(* Set / token similarity primitives *)

\* jaccard_similarity without its first test (lines 214-215)
jaccard_no_empty_case(set_a, set_b) ==
    IF set_a = {} \/ set_b = {} THEN <<0, 1>>
    ELSE Rat(Cardinality(set_a \cap set_b), Cardinality(set_a \cup set_b))

jaccard_similarity(set_a, set_b) ==
    Bind2(LAMBDA a, b :
            IF a = {} /\ b = {} THEN <<1, 1>>
            ELSE IF a = {} \/ b = {} THEN <<0, 1>>
            ELSE Rat(Cardinality(a \cap b), Cardinality(a \cup b)),
          set_a, set_b)

tokenize(strings) == UNION {Range(FindAllWords(Lower(strings[j]))) : j \in DOMAIN strings}

normalized_token_overlap(list_a, list_b) ==
    jaccard_similarity(tokenize(list_a), tokenize(list_b))

-----------------------------------------------------------------------------
(* ParsedCard and parse_card.  A raw card is [type, val]: type is the Python  *)
(* type of the top-level value ("dict", "list", ...) and val its content.     *)
(* Assumption strengths and adaptation-point types are only ever compared     *)
(* for equality, so they are atoms ("soft", "hard", "swappable_component").   *)

IsDict(v) == v.type = "dict"

\* [f(x) for x in xs] with f = x.get(key, "")
Column(xs, key) == [j \in DOMAIN xs |-> Get(xs[j], key, <<>>)]

\* the dict built by d[keys[j]] = vals[j] for j in order: the last write wins
DictOf(keys, vals) ==
    [k \in Range(keys) |->
        vals[CHOOSE j \in DOMAIN keys :
                keys[j] = k /\ \A m \in DOMAIN keys : m > j => keys[m] # k]]

\* the exception parse_card(card_data) raises on a dict, "" when it returns: a
\* section that is None has no .get (lines 158, 162, 168, 178, 184, 198).  The
\* lists of the cards explored are lists of dicts.
parse_card_error(card_data) ==
    LET behavior == Get(card_data, "behavior", <<>>)
    IN  IF \/ IsNone(Get(card_data, "identity", <<>>))
           \/ IsNone(Get(card_data, "problem_pattern", <<>>))
           \/ IsNone(behavior)
           \/ IsNone(Get(behavior, "reasoning", <<>>))
           \/ IsNone(Get(card_data, "domain_assumptions", <<>>))
           \/ IsNone(Get(card_data, "composition", <<>>))
        THEN "AttributeError"
        ELSE ""

\* parse_card(raw) raises: raw is not a dict (line 158), or a section is None
ParseRaises(raw) == ~IsDict(raw) \/ parse_card_error(raw.val) # ""

\* a parse_card that takes the identity section out of card_data (pop for get)
card_after_parse_pop(raw) ==
    [raw EXCEPT !.val = [k \in DOMAIN raw.val \ {"identity"} |-> raw.val[k]]]

\* the caller's card object once parse_card(raw) has returned: lines 153-205 only
\* read it (.get, iteration), and the ParsedCard is a new object
card_after_parse(raw) == raw

parse_card(card_data) ==
    LET identity    == Get(card_data, "identity", <<>>)
        pp          == Get(card_data, "problem_pattern", <<>>)
        behavior    == Get(card_data, "behavior", <<>>)
        inputs      == Get(behavior, "inputs", <<>>)
        outputs     == Get(behavior, "outputs", <<>>)
        reasoning   == Get(behavior, "reasoning", <<>>)
        assumptions == Get(card_data, "domain_assumptions", <<>>)
        all_assumptions ==
            Get(assumptions, "data_assumptions", <<>>)
            \o Get(assumptions, "environment_assumptions", <<>>)
            \o Get(assumptions, "authority_assumptions", <<>>)
        strengths   == [j \in DOMAIN all_assumptions |->
                            Get(all_assumptions[j], "strength", "soft")]
        aps         == Get(card_data, "adaptation_points", <<>>)
        ap_types    == [j \in DOMAIN aps |-> Get(aps[j], "type", "")]
        composition == Get(card_data, "composition", <<>>)
    IN  [ name                   |-> Get(identity, "name", <<>>),
          problem_category       |-> Get(pp, "category", <<>>),
          problem_description    |-> Get(pp, "description", <<>>),
          sub_patterns           |-> Get(pp, "sub_patterns", <<>>),
          input_names            |-> Column(inputs, "name"),
          input_types            |-> Column(inputs, "type"),
          output_names           |-> Column(outputs, "name"),
          output_types           |-> Column(outputs, "type"),
          reasoning_method       |-> Get(reasoning, "method", <<>>),
          reasoning_approach     |-> Get(reasoning, "approach", <<>>),
          objectives             |-> Get(reasoning, "objectives", <<>>),
          assumption_ids         |-> Column(all_assumptions, "id"),
          assumption_strengths   |-> DictOf(Column(all_assumptions, "id"), strengths),
          adaptation_point_ids   |-> Column(aps, "id"),
          adaptation_point_types |-> DictOf(Column(aps, "id"), ap_types),
          emitted_events         |-> Column(Get(composition, "emits", <<>>), "event"),
          consumed_events        |-> Column(Get(composition, "listens_to", <<>>), "event"),
          delegate_interfaces    |-> Column(Get(composition, "delegates_to", <<>>), "interface") ]

-----------------------------------------------------------------------------
(* The four deterministic dimension calculators *)

RECURSIVE SetToList(_)
SetToList(S) ==
    IF S = {} THEN <<>>
    ELSE LET x == CHOOSE y \in S : TRUE IN <<x>> \o SetToList(S \ {x})

\* the number of values of dict d equal to v
CountValues(d, v) == Cardinality({k \in DOMAIN d : d[k] = v})

\* (w1*x1 + ... + wn*xn) with the weights in hundredths
RECURSIVE WeightedSum(_, _)
WeightedSum(ws, xs) ==
    Bind2(LAMBDA w, x :
            IF w = <<>> THEN <<0, 1>>
            ELSE RAdd(Rat(w[1] * x[1][1], 100 * x[1][2]), WeightedSum(Tail(w), Tail(x))),
          ws, xs)

\* compute_sub_pattern_overlap with the two weights exchanged
compute_sub_pattern_overlap_swapped(card_a, card_b) ==
    LET exact == jaccard_similarity(Range(card_a.sub_patterns), Range(card_b.sub_patterns))
        token == normalized_token_overlap(card_a.sub_patterns, card_b.sub_patterns)
    IN  Round3(WeightedSum(<<60, 40>>, <<exact, token>>))

compute_sub_pattern_overlap(card_a, card_b) ==
    LET exact == jaccard_similarity(Range(card_a.sub_patterns), Range(card_b.sub_patterns))
        token == normalized_token_overlap(card_a.sub_patterns, card_b.sub_patterns)
    IN  Round3(WeightedSum(<<40, 60>>, <<exact, token>>))

\* compute_io_similarity with count_sim = count_diff / max_count (the "1.0 -" lost)
compute_io_similarity_count_diff(card_a, card_b) ==
    LET input_name_sim  == normalized_token_overlap(card_a.input_names, card_b.input_names)
        input_type_sim  == normalized_token_overlap(card_a.input_types, card_b.input_types)
        output_name_sim == normalized_token_overlap(card_a.output_names, card_b.output_names)
        output_type_sim == normalized_token_overlap(card_a.output_types, card_b.output_types)
        count_diff == Abs(Len(card_a.input_names) - Len(card_b.input_names))
                      + Abs(Len(card_a.output_names) - Len(card_b.output_names))
        max_count  == Max(Max(Len(card_a.input_names) + Len(card_a.output_names),
                              Len(card_b.input_names) + Len(card_b.output_names)), 1)
        count_sim  == Rat(count_diff, max_count)
    IN  Round3(WeightedSum(<<25, 15, 25, 15, 20>>,
                           <<input_name_sim, input_type_sim, output_name_sim,
                             output_type_sim, count_sim>>))

\* compute_io_similarity with the weights of names and type tags exchanged
compute_io_similarity_types_first(card_a, card_b) ==
    LET input_name_sim  == normalized_token_overlap(card_a.input_names, card_b.input_names)
        input_type_sim  == normalized_token_overlap(card_a.input_types, card_b.input_types)
        output_name_sim == normalized_token_overlap(card_a.output_names, card_b.output_names)
        output_type_sim == normalized_token_overlap(card_a.output_types, card_b.output_types)
        count_diff == Abs(Len(card_a.input_names) - Len(card_b.input_names))
                      + Abs(Len(card_a.output_names) - Len(card_b.output_names))
        max_count  == Max(Max(Len(card_a.input_names) + Len(card_a.output_names),
                              Len(card_b.input_names) + Len(card_b.output_names)), 1)
        count_sim  == Rat(max_count - count_diff, max_count)
    IN  Round3(WeightedSum(<<15, 25, 15, 25, 20>>,
                           <<input_name_sim, input_type_sim, output_name_sim,
                             output_type_sim, count_sim>>))

compute_io_similarity(card_a, card_b) ==
    LET input_name_sim  == normalized_token_overlap(card_a.input_names, card_b.input_names)
        input_type_sim  == normalized_token_overlap(card_a.input_types, card_b.input_types)
        output_name_sim == normalized_token_overlap(card_a.output_names, card_b.output_names)
        output_type_sim == normalized_token_overlap(card_a.output_types, card_b.output_types)
        count_diff == Abs(Len(card_a.input_names) - Len(card_b.input_names))
                      + Abs(Len(card_a.output_names) - Len(card_b.output_names))
        max_count  == Max(Max(Len(card_a.input_names) + Len(card_a.output_names),
                              Len(card_b.input_names) + Len(card_b.output_names)), 1)
        count_sim  == Rat(max_count - count_diff, max_count)
    IN  Round3(WeightedSum(<<25, 15, 25, 15, 20>>,
                           <<input_name_sim, input_type_sim, output_name_sim,
                             output_type_sim, count_sim>>))

compute_adaptation_portability(card_a, card_b) ==
    LET a_soft     == CountValues(card_a.assumption_strengths, "soft")
        a_total    == Max(Cardinality(DOMAIN card_a.assumption_strengths), 1)
        a_softness == Rat(a_soft, a_total)
        b_soft     == CountValues(card_b.assumption_strengths, "soft")
        b_total    == Max(Cardinality(DOMAIN card_b.assumption_strengths), 1)
        b_softness == Rat(b_soft, b_total)
        sum_softness == RAdd(a_softness, b_softness)
        avg_softness == Rat(sum_softness[1], 2 * sum_softness[2])
        a_swappable == CountValues(card_a.adaptation_point_types, "swappable_component")
        a_ap_total  == Max(Cardinality(DOMAIN card_a.adaptation_point_types), 1)
        b_swappable == CountValues(card_b.adaptation_point_types, "swappable_component")
        b_ap_total  == Max(Cardinality(DOMAIN card_b.adaptation_point_types), 1)
        sum_swap    == RAdd(Rat(a_swappable, a_ap_total), Rat(b_swappable, b_ap_total))
        swappability == Rat(sum_swap[1], 2 * sum_swap[2])
        ap_count_score == RMin(Rat(Len(card_a.adaptation_point_ids)
                                   + Len(card_b.adaptation_point_ids), 8), <<1, 1>>)
    IN  Round3(WeightedSum(<<35, 40, 25>>, <<avg_softness, swappability, ap_count_score>>))

\* compute_composition_compatibility taking the smaller of the two directions
compute_composition_compatibility_smaller(card_a, card_b) ==
    LET all_events_a == Range(card_a.emitted_events \o card_a.consumed_events)
        all_events_b == Range(card_b.emitted_events \o card_b.consumed_events)
        event_overlap == normalized_token_overlap(SetToList(all_events_a),
                                                  SetToList(all_events_b))
        a_emits    == Range(card_a.emitted_events)
        b_consumes == Range(card_b.consumed_events)
        b_emits    == Range(card_b.emitted_events)
        a_consumes == Range(card_a.consumed_events)
        direct_a_to_b == Rat(Cardinality(a_emits \cap b_consumes),
                             Max(Cardinality(b_consumes), 1))
        direct_b_to_a == Rat(Cardinality(b_emits \cap a_consumes),
                             Max(Cardinality(a_consumes), 1))
        direct_composability == RMin(direct_a_to_b, direct_b_to_a)
        interface_overlap == normalized_token_overlap(card_a.delegate_interfaces,
                                                      card_b.delegate_interfaces)
    IN  Round3(WeightedSum(<<40, 35, 25>>,
                           <<event_overlap, direct_composability, interface_overlap>>))

\* compute_composition_compatibility looking from card_a to card_b only
compute_composition_compatibility_one_way(card_a, card_b) ==
    LET all_events_a == Range(card_a.emitted_events \o card_a.consumed_events)
        all_events_b == Range(card_b.emitted_events \o card_b.consumed_events)
        event_overlap == normalized_token_overlap(SetToList(all_events_a),
                                                  SetToList(all_events_b))
        a_emits    == Range(card_a.emitted_events)
        b_consumes == Range(card_b.consumed_events)
        b_emits    == Range(card_b.emitted_events)
        a_consumes == Range(card_a.consumed_events)
        direct_a_to_b == Rat(Cardinality(a_emits \cap b_consumes),
                             Max(Cardinality(b_consumes), 1))
        direct_b_to_a == Rat(Cardinality(b_emits \cap a_consumes),
                             Max(Cardinality(a_consumes), 1))
        direct_composability == direct_a_to_b
        interface_overlap == normalized_token_overlap(card_a.delegate_interfaces,
                                                      card_b.delegate_interfaces)
    IN  Round3(WeightedSum(<<40, 35, 25>>,
                           <<event_overlap, direct_composability, interface_overlap>>))

compute_composition_compatibility(card_a, card_b) ==
    LET all_events_a == Range(card_a.emitted_events \o card_a.consumed_events)
        all_events_b == Range(card_b.emitted_events \o card_b.consumed_events)
        event_overlap == normalized_token_overlap(SetToList(all_events_a),
                                                  SetToList(all_events_b))
        a_emits    == Range(card_a.emitted_events)
        b_consumes == Range(card_b.consumed_events)
        b_emits    == Range(card_b.emitted_events)
        a_consumes == Range(card_a.consumed_events)
        direct_a_to_b == Rat(Cardinality(a_emits \cap b_consumes),
                             Max(Cardinality(b_consumes), 1))
        direct_b_to_a == Rat(Cardinality(b_emits \cap a_consumes),
                             Max(Cardinality(a_consumes), 1))
        direct_composability == RMax(direct_a_to_b, direct_b_to_a)
        interface_overlap == normalized_token_overlap(card_a.delegate_interfaces,
                                                      card_b.delegate_interfaces)
    IN  Round3(WeightedSum(<<40, 35, 25>>,
                           <<event_overlap, direct_composability, interface_overlap>>))

-----------------------------------------------------------------------------
(* SimilarityBreakdown: six dimensions in thousandths, and the weight table *)

Dimensions == <<"problem_pattern_similarity", "sub_pattern_overlap",
                "io_structural_similarity", "reasoning_similarity",
                "adaptation_portability", "composition_compatibility">>

\* the dict the class attribute WEIGHTS is bound to when the module is loaded,
\* in thousandths
WEIGHTS == [ problem_pattern_similarity |-> 300,
             sub_pattern_overlap        |-> 150,
             io_structural_similarity   |-> 200,
             reasoning_similarity       |-> 100,
             adaptation_portability     |-> 150,
             composition_compatibility  |-> 100 ]

\* SimilarityBreakdown(): every dimension defaults to 0.0
NewBreakdown == [d \in Range(Dimensions) |-> 0]

RECURSIVE WeightedTotal(_, _)
WeightedTotal(bd, dims) ==
    IF dims = <<>> THEN 0
    ELSE bd[Head(dims)] * weights[Head(dims)] + WeightedTotal(bd, Tail(dims))

\* a composite score cut to 3 decimals instead of rounded
composite_score_truncated(bd) == WeightedTotal(bd, Dimensions) \div 1000

composite_score(bd) == Round3(Rat(WeightedTotal(bd, Dimensions), 1000000))

\* the thousandths k with k % 10 = 5 whose double, formatted with :.2f, rounds up
\* (the double nearest to k/1000 is above the decimal tie)
TiesRoundedUp ==
    { 5, 25, 35, 55, 65, 85, 95, 115, 135, 165, 195, 225, 255, 265, 275, 315, 325,
      335, 375, 385, 395, 405, 445, 455, 465, 505, 515, 525, 535, 545, 555, 635,
      645, 655, 665, 675, 685, 755, 765, 775, 785, 795, 805, 875, 885, 895, 905,
      915, 925, 935, 1135, 1145, 1155, 1165, 1175, 1185, 1195, 1205, 1215, 1225,
      1235, 1245, 1375, 1385, 1395, 1405, 1415, 1425, 1435, 1445, 1455, 1465,
      1475, 1485, 1495, 1635, 1645, 1655, 1665, 1675, 1685, 1695, 1705, 1715,
      1725, 1735, 1745, 1875, 1885, 1895, 1905, 1915, 1925, 1935, 1945, 1955,
      1965, 1975, 1985, 1995 }

\* f"{x:.2f}" of a score of v thousandths: the sign and the hundredths printed
Format2(v) ==
    LET m == Abs(v)
        h == IF m % 10 = 5 THEN (IF m \in TiesRoundedUp THEN m \div 10 + 1 ELSE m \div 10)
                           ELSE (m + 5) \div 10
    IN  [sign |-> IF v < 0 THEN "-" ELSE "", hundredths |-> h]

\* SimilarityBreakdown._overlap_desc
overlap_desc(score) ==
    IF score > 700 THEN "high overlap"
    ELSE IF score > 400 THEN "partial overlap"
    ELSE "low overlap"

\* SimilarityBreakdown.explanation: the lines joined by "\n", each as its label,
\* the formatted number and the word in parentheses
explanation(bd) ==
    << <<"Composite Similarity: ", Format2(composite_score(bd))>>,
       <<>>,
       <<"  Problem Pattern Match:     ", Format2(bd.problem_pattern_similarity),
         IF bd.problem_pattern_similarity > 700 THEN "strong"
         ELSE IF bd.problem_pattern_similarity > 400 THEN "moderate" ELSE "weak">>,
       <<"  Sub-Pattern Overlap:       ", Format2(bd.sub_pattern_overlap),
         overlap_desc(bd.sub_pattern_overlap)>>,
       <<"  I/O Structural Match:      ", Format2(bd.io_structural_similarity),
         IF bd.io_structural_similarity > 500 THEN "compatible" ELSE "needs adaptation">>,
       <<"  Reasoning Approach:        ", Format2(bd.reasoning_similarity),
         IF bd.reasoning_similarity > 600 THEN "similar" ELSE "different">>,
       <<"  Adaptation Portability:    ", Format2(bd.adaptation_portability),
         IF bd.adaptation_portability > 700 THEN "easy fork"
         ELSE IF bd.adaptation_portability > 400 THEN "moderate effort"
         ELSE "significant rework">>,
       <<"  Composition Compatibility: ", Format2(bd.composition_compatibility),
         IF bd.composition_compatibility > 600 THEN "plug-compatible"
         ELSE "needs integration work">> >>

-----------------------------------------------------------------------------
(* compute_llm_similarity: the texts it is given and its two token-Jaccard   *)
(* blocks (no api key, and the except branch)                                *)

\* f"Category: {a.problem_category}\n{a.problem_description}"
ProblemText(a) ==
    <<"C", "a", "t", "e", "g", "o", "r", "y", ":", " ">>
    \o a.problem_category \o <<"\n">> \o a.problem_description

\* f"{a.reasoning_method}: {a.reasoning_approach}"
ReasoningText(a) == a.reasoning_method \o <<":", " ">> \o a.reasoning_approach

OfflineTokenJaccard(text_a, text_b) ==
    LET tokens_a == Range(FindAllWords(Lower(text_a)))
        tokens_b == Range(FindAllWords(Lower(text_b)))
    IN  Round3(jaccard_similarity(tokens_a, tokens_b))

\* the except branch returning 0.0 instead of the token overlap
FallbackZero(text_a, text_b) == 0

FallbackTokenJaccard(text_a, text_b) ==
    LET tokens_a == Range(FindAllWords(Lower(text_a)))
        tokens_b == Range(FindAllWords(Lower(text_b)))
    IN  Round3(jaccard_similarity(tokens_a, tokens_b))

-----------------------------------------------------------------------------
(* find_similar_async: the pure parts *)

\* candidate.get("identity", {}).get("name") raises AttributeError
IdentityRaises(c) == ~IsDict(c) \/ IsNone(Get(c.val, "identity", <<>>))

\* candidate.get("identity", {}).get("name")
IdentityName(c) == Get(Get(c.val, "identity", <<>>), "name", NoneVal)

Unknown == <<"u", "n", "k", "n", "o", "w", "n">>

\* the dict appended to `results`; reg_index is a history field (the position
\* of the candidate in the registry), not a key of the dict
MatchOf(candidate, bd, j) ==
    [ card         |-> Get(Get(candidate.val, "identity", <<>>), "name", Unknown),
      display_name |-> Get(Get(candidate.val, "identity", <<>>), "display_name", <<>>),
      score        |-> composite_score(bd),
      breakdown    |-> bd,
      reg_index    |-> j ]

\* list.sort(key=score, reverse=True) is stable: an element is inserted after
\* every element whose score is >= its own
\* an insertion that puts an element before the elements of equal score
RECURSIVE InsertDescUnstable(_, _)
InsertDescUnstable(sorted, m) ==
    IF sorted = <<>> THEN <<m>>
    ELSE IF Head(sorted).score > m.score
         THEN <<Head(sorted)>> \o InsertDescUnstable(Tail(sorted), m)
         ELSE <<m>> \o sorted

RECURSIVE InsertDesc(_, _)
InsertDesc(sorted, m) ==
    IF sorted = <<>> THEN <<m>>
    ELSE IF Head(sorted).score >= m.score
         THEN <<Head(sorted)>> \o InsertDesc(Tail(sorted), m)
         ELSE <<m>> \o sorted

RECURSIVE SortFrom(_, _)
SortFrom(sorted, rest) ==
    IF rest = <<>> THEN sorted
    ELSE SortFrom(InsertDesc(sorted, Head(rest)), Tail(rest))

SortByScoreDesc(rs) == SortFrom(<<>>, rs)

\* rs[:k + 1]
SlicePrefixOneMore(rs, k) == SubSeq(rs, 1, Min(k + 1, Len(rs)))

\* rs[:k]
SlicePrefix(rs, k) ==
    LET n == IF k >= 0 THEN Min(k, Len(rs)) ELSE Max(Len(rs) + k, 0)
    IN  SubSeq(rs, 1, n)

\* the test at line 497 with > for >=
MeetsThresholdStrict(score, threshold) == score > threshold

\* the test at line 497 reversed
MeetsThresholdReversed(score, threshold) == score <= threshold

\* line 497
MeetsThreshold(score, threshold) == score >= threshold

\* the test at lines 492-493 never true
IsSelfNever(candidate, query) == FALSE

\* the test at lines 492-493 passing only when the query has a name
IsSelfNamed(candidate, query) ==
    IdentityName(query) # NoneVal /\ IdentityName(candidate) = IdentityName(query)

\* lines 492-493
IsSelf(candidate, query) == IdentityName(candidate) = IdentityName(query)

-----------------------------------------------------------------------------
(* Behavior cards used as inputs *)

Field(name, type) == [name |-> name, type |-> type]

Assume(id, strength) == [id |-> id, strength |-> strength]

Point(id, type) == [id |-> id, type |-> type]

Event(e) == [event |-> e]

\* a card with every section present
FullCard(name, c) ==
    [ type |-> "dict",
      val  |-> [ identity        |-> [name |-> name, display_name |-> Lower(name)],
                 problem_pattern |-> [ category     |-> c.category,
                                       description  |-> c.description,
                                       sub_patterns |-> c.sub_patterns ],
                 behavior        |-> [ inputs    |-> c.inputs,
                                       outputs   |-> c.outputs,
                                       reasoning |-> [ method   |-> c.method,
                                                       approach |-> c.approach ] ],
                 domain_assumptions |-> [ data_assumptions      |-> c.data_assumptions,
                                          authority_assumptions |-> c.authority_assumptions ],
                 adaptation_points  |-> c.adaptation_points,
                 composition     |-> [ emits        |-> c.emits,
                                       listens_to   |-> c.listens_to,
                                       delegates_to |-> c.delegates_to ] ] ]

\* an allocation behavior
ContentAlloc ==
    [ category     |-> <<"o", "p", "t">>,
      description  |-> <<"r", "e", " ", "b", "a", "l">>,
      sub_patterns |-> << <<"f", "c", "-", "u", "n">>, <<"a", "l">> >>,
      inputs       |-> << Field(<<"d", "_", "s", "i", "g">>, <<"T", "S">>) >>,
      outputs      |-> << Field(<<"a", "_", "p", "l">>, <<"p", "l">>) >>,
      method       |-> <<"l", "p">>,
      approach     |-> <<"m", "i", "n", " ", "c">>,
      data_assumptions      |-> << Assume(<<"d", "1">>, "hard"), Assume(<<"d", "2">>, "soft") >>,
      authority_assumptions |-> << Assume(<<"a", "1">>, "soft") >>,
      adaptation_points     |-> << Point(<<"p", "1">>, "swappable_component"),
                                   Point(<<"p", "2">>, "configurable") >>,
      emits        |-> << Event(<<"p", "l", ".", "o", "k">>) >>,
      listens_to   |-> << Event(<<"d", ".", "u", "p">>) >>,
      delegates_to |-> << [interface |-> <<"F", "c">>] >> ]

\* the same pattern in another domain: shares some tokens with ContentAlloc
ContentBudget ==
    [ category     |-> <<"O", "p", "t">>,
      description  |-> <<"r", "e", " ", "f", "u", "n", "d">>,
      sub_patterns |-> << <<"f", "c", "-", "r", "i", "s", "k">>, <<"a", "l">> >>,
      inputs       |-> << Field(<<"d", "_", "f", "c">>, <<"t", "s">>) >>,
      outputs      |-> << Field(<<"a", "_", "p", "l">>, <<"p", "l">>) >>,
      method       |-> <<"l", "p">>,
      approach     |-> <<"m", "i", "n", " ", "r">>,
      data_assumptions      |-> << Assume(<<"d", "1">>, "soft") >>,
      authority_assumptions |-> << >>,
      adaptation_points     |-> << Point(<<"p", "1">>, "swappable_component") >>,
      emits        |-> << Event(<<"d", ".", "u", "p">>) >>,
      listens_to   |-> << Event(<<"p", "l", ".", "o", "k">>) >>,
      delegates_to |-> << [interface |-> <<"f", "c">>] >> ]

\* an unrelated behavior: no shared token, two inputs against no output
ContentTriage ==
    [ category     |-> <<"c", "l", "s">>,
      description  |-> <<"t", "a", "g", " ", "m", "s", "g", " ", "b", "y", " ", "u", "r", "g", " ", "x">>,
      sub_patterns |-> << <<"r", "t">> >>,
      inputs       |-> << Field(<<"m", "s", "g">>, <<"s", "t", "r">>),
                          Field(<<"c", "h">>, <<"s", "t", "r">>) >>,
      outputs      |-> << >>,
      method       |-> <<"r", "u", "l", "e">>,
      approach     |-> <<"i", "f">>,
      data_assumptions      |-> << Assume(<<"d", "1">>, "hard") >>,
      authority_assumptions |-> << >>,
      adaptation_points     |-> << >>,
      emits        |-> << Event(<<"q", "1">>) >>,
      listens_to   |-> << >>,
      delegates_to |-> << >> ]

\* the mirror image of ContentTriage's I/O shape: no input, two outputs
ContentReport ==
    [ category     |-> <<"g", "e", "n">>,
      description  |-> <<"s", "u", "m", " ", "k", "p", "i">>,
      sub_patterns |-> << >>,
      inputs       |-> << >>,
      outputs      |-> << Field(<<"d", "o", "c">>, <<"p", "d", "f">>),
                          Field(<<"l", "o", "g">>, <<"t", "x", "t">>) >>,
      method       |-> <<"t", "p", "l">>,
      approach     |-> <<"f", "i", "l", "l">>,
      data_assumptions      |-> << Assume(<<"d", "9">>, "hard") >>,
      authority_assumptions |-> << >>,
      adaptation_points     |-> << >>,
      emits        |-> << >>,
      listens_to   |-> << >>,
      delegates_to |-> << [interface |-> <<"w">>] >> ]

NameAlloc == <<"I", "n", "v">>

NameBudget == <<"B", "u", "d">>

NameFund == <<"F", "n", "d">>

NameTriage == <<"T", "r", "i">>

CardAlloc == FullCard(NameAlloc, ContentAlloc)

CardBudget == FullCard(NameBudget, ContentBudget)

\* equal to CardBudget in everything but its identity
CardFund == FullCard(NameFund, ContentBudget)

CardTriage == FullCard(NameTriage, ContentTriage)

CardReport == FullCard(<<"R", "e", "p">>, ContentReport)

\* a card with no section at all, hence no identity name
CardEmpty == [type |-> "dict", val |-> <<>>]

\* a card with an identity that has a display name but no name
CardNameless ==
    [ type |-> "dict",
      val  |-> [ identity |-> [display_name |-> <<"x">>],
                 problem_pattern |-> [category |-> <<"o", "p", "t">>] ] ]

\* a top-level value that is not a keyed mapping
CardList == [type |-> "list", val |-> <<>>]

\* a keyed mapping whose identity section is present and null (`identity:` in YAML)
CardNullIdentity == [type |-> "dict", val |-> [identity |-> NoneSection]]

NameGate == <<"g", "a", "t", "e">>

\* a keyed mapping with a name whose composition section is present and null
CardNullComposition ==
    [ type |-> "dict",
      val  |-> [ identity |-> [name |-> NameGate],
                 problem_pattern |-> [category |-> <<"o", "p", "t">>],
                 composition |-> NoneSection ] ]

-----------------------------------------------------------------------------
(* Bounds and input sets *)

\* longest registry explored without an api key
MaxRegistry == 2

\* longest registry explored with an api key (each comparison then has two
\* remote calls whose outcomes are chosen freely)
MaxOnlineRegistry == 1

QueryCards == {CardAlloc, CardEmpty, CardList}

RegistryCards == {CardAlloc, CardBudget, CardFund, CardTriage, CardNameless, CardList,
                  CardNullComposition}

OnlineRegistryCards == {CardAlloc, CardBudget, CardTriage}

SeqsUpTo(S, n) == UNION {[1..k -> S] : k \in 0..n}

\* min_score in thousandths: 300 is the default, 664 is a score that occurs
MinScores == {0, 300, 664, 665}

\* max_results: 10 is the default
MaxResults == {0, 1, 10}

\* what the remote scorer can do with one request: answer with a score (any
\* JSON number; round(float(score), 3) is taken), or fail in a way that raises
\* an Exception inside the try block
RemoteOutcomes ==
    { [kind |-> "ok", score |-> <<1, 2>>],
      [kind |-> "ok", score |-> <<3, 2>>],
      [kind |-> "timeout"],
      [kind |-> "transport_error"],
      [kind |-> "malformed"] }

\* a family of descriptors: every combination of a few values per section
SubPatternChoices == { <<>>, << <<"f", "c", "-", "u", "n">>, <<"a", "l">> >> }

IOChoices ==
    { [inputs |-> <<>>, outputs |-> <<>>],
      [inputs |-> << Field(<<"d", "_", "s", "i", "g">>, <<"t", "s">>) >>,
       outputs |-> << Field(<<"a", "_", "p", "l">>, <<"p", "l">>) >>],
      [inputs |-> << Field(<<"m", "s", "g">>, <<"s", "t", "r">>),
                     Field(<<"c", "h">>, <<>>) >>,
       outputs |-> <<>>] }

AssumptionChoices ==
    { <<>>,
      << Assume(<<"d", "1">>, "hard") >>,
      << Assume(<<"d", "1">>, "soft") >>,
      << Assume(<<"d", "1">>, "soft"), Assume(<<"d", "2">>, "hard") >> }

PointChoices ==
    { <<>>,
      << Point(<<"p", "1">>, "swappable_component"), Point(<<"p", "2">>, "configurable") >>,
      << Point(<<"p", "1">>, "swappable_component"), Point(<<"p", "2">>, "swappable_component"),
         Point(<<"p", "3">>, "swappable_component"), Point(<<"p", "4">>, "swappable_component") >> }

CompositionChoices ==
    { [emits |-> <<>>, listens_to |-> <<>>],
      [emits |-> << Event(<<"p", "l", ".", "o", "k">>) >>,
       listens_to |-> << Event(<<"d", ".", "u", "p">>) >>],
      [emits |-> << Event(<<"t", "i", "c", "k">>) >>,
       listens_to |-> << Event(<<"t", "i", "c", "k">>) >>] }

TextChoices ==
    { [category |-> <<>>, description |-> <<>>, method |-> <<>>, approach |-> <<>>],
      [category |-> <<"o", "p", "t">>, description |-> <<"r", "e", " ", "b", "a", "l">>,
       method |-> <<"l", "p">>, approach |-> <<"m", "i", "n", " ", "c">>] }

Descriptors ==
    { FullCard(<<"D">>,
               [ category     |-> t.category,
                 description  |-> t.description,
                 sub_patterns |-> sp,
                 inputs       |-> io.inputs,
                 outputs      |-> io.outputs,
                 method       |-> t.method,
                 approach     |-> t.approach,
                 data_assumptions      |-> da,
                 authority_assumptions |-> <<>>,
                 adaptation_points     |-> ap,
                 emits        |-> co.emits,
                 listens_to   |-> co.listens_to,
                 delegates_to |-> <<>> ]) :
        t \in TextChoices, sp \in SubPatternChoices, io \in IOChoices,
        da \in AssumptionChoices, ap \in PointChoices, co \in CompositionChoices }

\* the cards compared pairwise, in both orders
PairCards == {CardAlloc, CardBudget, CardTriage, CardReport, CardEmpty, CardNameless, CardList,
              CardNullIdentity, CardNullComposition}

\* a card with one section only, every other section absent
CardOnlyBehavior ==
    [ type |-> "dict",
      val  |-> [ behavior |-> [ inputs |-> <<[name |-> <<"m", "s", "g">>]>> ] ] ]

\* the values parse_card is called on directly
ParseCards == PairCards \cup {CardOnlyBehavior}

\* elements of the sets jaccard_similarity is called on directly: 1..MaxElements
MaxElements == 3

\* the second call of find_similar on an engine repeats the first with another
\* min_score; these runs use well-formed cards and no api key
RepeatQueryCards == {CardAlloc, CardEmpty}

RepeatRegistryCards == {CardAlloc, CardBudget, CardFund, CardTriage, CardNameless}

RepeatMaxResults == {1, 10}

-----------------------------------------------------------------------------
(* State *)

NoCompare == [stage |-> "idle"]

NoLLM == [status |-> "idle", path |-> "none"]

NoPrev == [calls |-> 0]

NoFn == [name |-> "none"]

\* no client is open and no request was posted
NoNet == [open |-> 0, requests |-> <<>>]

\* the part of the state that no step of a running call changes
inputs == <<api_key, httpx_ok, op, card, registry, min_score, max_results, prev, fn,
            weights>>

InitFindSimilar ==
    /\ op = "find_similar"
    /\ api_key \in BOOLEAN
    /\ httpx_ok \in (IF api_key THEN BOOLEAN ELSE {TRUE})   \* consulted only with a key
    /\ card \in QueryCards
    /\ registry \in IF api_key THEN SeqsUpTo(OnlineRegistryCards, MaxOnlineRegistry)
                               ELSE SeqsUpTo(RegistryCards, MaxRegistry)
    /\ min_score \in MinScores
    /\ max_results \in MaxResults
    /\ pc = "loop"
    /\ idx = 1
    /\ results = <<>>
    /\ cmp = NoCompare
    /\ llm = NoLLM
    /\ ret = <<>>
    /\ error = ""
    /\ prev = NoPrev
    /\ weights = WEIGHTS
    /\ stdout = <<>>
    /\ net = NoNet
    /\ fn = NoFn

-----------------------------------------------------------------------------
(* find_similar_async *)

\* line 491: the loop is over; lines 506-507
FindReturn ==
    /\ op = "find_similar" /\ pc = "loop" /\ idx > Len(registry)
    /\ ret' = SlicePrefix(SortByScoreDesc(results), max_results)
    /\ results' = SortByScoreDesc(results)
    /\ pc' = "done"
    /\ UNCHANGED <<inputs, stdout, net, idx, cmp, llm, error>>

\* lines 492-493: candidate.get or card.get on a value that is not a dict
\* (the card itself or its identity)
FindRaise ==
    /\ op = "find_similar" /\ pc = "loop" /\ idx <= Len(registry)
    /\ IdentityRaises(registry[idx]) \/ IdentityRaises(card)
    /\ error' = "AttributeError"
    /\ pc' = "raised"
    /\ UNCHANGED <<inputs, stdout, net, idx, results, cmp, llm, ret>>

\* lines 492-494: skip self
FindSkipSelf ==
    /\ op = "find_similar" /\ pc = "loop" /\ idx <= Len(registry)
    /\ ~IdentityRaises(registry[idx]) /\ ~IdentityRaises(card)
    /\ IsSelf(registry[idx], card)
    /\ idx' = idx + 1
    /\ UNCHANGED <<inputs, stdout, net, pc, results, cmp, llm, ret, error>>

\* line 496: call compare_async(card, candidate)
FindCompare ==
    /\ op = "find_similar" /\ pc = "loop" /\ idx <= Len(registry)
    /\ ~IdentityRaises(registry[idx]) /\ ~IdentityRaises(card)
    /\ ~IsSelf(registry[idx], card)
    /\ cmp' = [stage |-> "called", card_a |-> card, card_b |-> registry[idx]]
    /\ pc' = "comparing"
    /\ UNCHANGED <<inputs, stdout, net, idx, results, llm, ret, error>>

\* lines 496-504: compare_async returned its breakdown
FindCollect ==
    /\ op = "find_similar" /\ pc = "comparing" /\ cmp.stage = "returned"
    /\ results' = IF MeetsThreshold(composite_score(cmp.bd), min_score)
                  THEN Append(results, MatchOf(registry[idx], cmp.bd, idx))
                  ELSE results
    /\ idx' = idx + 1
    /\ cmp' = NoCompare
    /\ pc' = "loop"
    /\ UNCHANGED <<inputs, stdout, net, llm, ret, error>>

-----------------------------------------------------------------------------
(* compare_async *)

\* lines 446-449
CompareParse ==
    /\ pc = "comparing" /\ cmp.stage = "called"
    /\ ~ParseRaises(cmp.card_a) /\ ~ParseRaises(cmp.card_b)
    /\ cmp' = [ stage  |-> "problem_pattern",
                card_a |-> card_after_parse(cmp.card_a),
                card_b |-> card_after_parse(cmp.card_b),
                a      |-> parse_card(cmp.card_a.val),
                b      |-> parse_card(cmp.card_b.val),
                bd     |-> NewBreakdown ]
    \* called by find_similar_async, card_a is `card` and card_b is registry[idx]
    /\ card' = IF op = "find_similar" THEN card_after_parse(card) ELSE card
    /\ registry' = IF op = "find_similar"
                   THEN [registry EXCEPT ![idx] = card_after_parse(@)]
                   ELSE registry
    /\ UNCHANGED <<api_key, httpx_ok, op, min_score, max_results, prev, fn, weights,
                   stdout, net, pc, idx, results, llm, ret, error>>

\* lines 446-447: parse_card calls .get on a value that is not a dict
\* (the card itself or one of its sections)
CompareRaise ==
    /\ pc = "comparing" /\ cmp.stage = "called"
    /\ ParseRaises(cmp.card_a) \/ ParseRaises(cmp.card_b)
    /\ error' = "AttributeError"
    /\ pc' = "raised"
    /\ UNCHANGED <<inputs, stdout, net, idx, results, cmp, llm, ret>>

\* compare(): asyncio.run returns the breakdown (lines 480-484)
CompareReturn ==
    /\ op = "compare" /\ pc = "comparing" /\ cmp.stage = "returned"
    /\ ret' = cmp.bd
    /\ pc' = "done"
    /\ UNCHANGED <<inputs, stdout, net, idx, results, cmp, llm, error>>

\* the arguments of the compute_llm_similarity call compare_async is at
TextA == IF cmp.stage = "problem_pattern" THEN ProblemText(cmp.a) ELSE ReasoningText(cmp.a)

TextB == IF cmp.stage = "problem_pattern" THEN ProblemText(cmp.b) ELSE ReasoningText(cmp.b)

AtLLMCall == pc = "comparing" /\ cmp.stage \in {"problem_pattern", "reasoning"}

\* compare_async after the await at lines 452-457 returned v: lines 452-463;
\* after the await at lines 468-472 returned v: lines 468-480
Resumed(v) ==
    IF cmp.stage = "problem_pattern"
    THEN [cmp EXCEPT !.stage = "reasoning",
                     !.bd = [cmp.bd EXCEPT
                        !.problem_pattern_similarity = v,
                        !.sub_pattern_overlap = compute_sub_pattern_overlap(cmp.a, cmp.b),
                        !.io_structural_similarity = compute_io_similarity(cmp.a, cmp.b)]]
    ELSE [stage |-> "returned", card_a |-> cmp.card_a, card_b |-> cmp.card_b,
          bd |-> [cmp.bd EXCEPT
                        !.reasoning_similarity = v,
                        !.adaptation_portability =
                            compute_adaptation_portability(cmp.a, cmp.b),
                        !.composition_compatibility =
                            compute_composition_compatibility(cmp.a, cmp.b)]]

-----------------------------------------------------------------------------
(* compute_llm_similarity *)

Finished(path, v) ==
    [status |-> "idle", path |-> path, text_a |-> TextA, text_b |-> TextB, value |-> v]

\* lines 374-378: no api key
LLMOffline ==
    /\ AtLLMCall /\ ~api_key
    /\ LET v == OfflineTokenJaccard(TextA, TextB)
       IN  /\ llm' = Finished("offline", v)
           /\ cmp' = Resumed(v)
    /\ UNCHANGED <<inputs, stdout, net, pc, idx, results, ret, error>>

\* line 380: `import httpx` is outside the try block
LLMImportError ==
    /\ AtLLMCall /\ api_key /\ ~httpx_ok
    /\ error' = "ModuleNotFoundError"
    /\ pc' = "raised"
    /\ UNCHANGED <<inputs, stdout, net, idx, results, cmp, llm, ret>>

\* line 402, `async with httpx.AsyncClient() as client`: __aenter__ opens a client
ClientEnter(open) == open + 1

\* an `async with` block whose __aexit__ leaves the client open
ClientExitLeak(open) == open

\* line 402: __aexit__ runs however the block is left (return, exception,
\* cancellation) and closes the client with its connections
ClientExit(open) == open - 1

\* the request posted at lines 403-416: the candidate it is for (0 for compare)
\* and the dimension it scores; one client.post is one HTTPS request (httpx
\* does not retry and does not follow redirects by default)
Request == [candidate |-> IF op = "find_similar" THEN idx ELSE 0, dimension |-> cmp.stage]

\* a call that posts its request a second time
LLMSendTwice ==
    /\ AtLLMCall /\ api_key /\ httpx_ok /\ llm.status = "idle"
    /\ llm' = [status |-> "in_flight", path |-> "remote"]
    /\ net' = [open |-> ClientEnter(net.open),
               requests |-> Append(Append(net.requests, Request), Request)]
    /\ UNCHANGED <<inputs, stdout, pc, idx, results, cmp, ret, error>>

\* lines 401-416: the client is opened and the request is posted
LLMSend ==
    /\ AtLLMCall /\ api_key /\ httpx_ok /\ llm.status = "idle"
    /\ llm' = [status |-> "in_flight", path |-> "remote"]
    /\ net' = [open |-> ClientEnter(net.open), requests |-> Append(net.requests, Request)]
    /\ UNCHANGED <<inputs, stdout, pc, idx, results, cmp, ret, error>>

\* lines 417-420: the response is a JSON object with a numeric score
LLMRecvScore(outcome) ==
    /\ AtLLMCall /\ llm.status = "in_flight"
    /\ outcome.kind = "ok"
    /\ LET v == Round3(outcome.score)
       IN  /\ llm' = Finished("remote", v)
           /\ cmp' = Resumed(v)
    /\ net' = [net EXCEPT !.open = ClientExit(@)]
    /\ UNCHANGED <<inputs, stdout, pc, idx, results, ret, error>>

\* line 422: print(f"LLM similarity failed ({e}), falling back to token overlap");
\* the text of the exception, which the remote end decides, is not kept
FailureLine(outcome) == "LLM similarity failed (...), falling back to token overlap"

\* an except branch that a timeout never reaches (a request with no timeout)
LLMRecvFailureNoTimeout(outcome) ==
    /\ AtLLMCall /\ llm.status = "in_flight"
    /\ outcome.kind \notin {"ok", "timeout"}
    /\ stdout' = Append(stdout, FailureLine(outcome))
    /\ LET v == FallbackTokenJaccard(TextA, TextB)
       IN  /\ llm' = Finished("fallback", v)
           /\ cmp' = Resumed(v)
    /\ net' = [net EXCEPT !.open = ClientExit(@)]
    /\ UNCHANGED <<inputs, pc, idx, results, ret, error>>

\* lines 421-425: anything in the try block raised an Exception
LLMRecvFailure(outcome) ==
    /\ AtLLMCall /\ llm.status = "in_flight"
    /\ outcome.kind # "ok"
    /\ stdout' = Append(stdout, FailureLine(outcome))
    /\ LET v == FallbackTokenJaccard(TextA, TextB)
       IN  /\ llm' = Finished("fallback", v)
           /\ cmp' = Resumed(v)
    /\ net' = [net EXCEPT !.open = ClientExit(@)]
    /\ UNCHANGED <<inputs, pc, idx, results, ret, error>>

\* a cancellation that hands the caller the matches collected so far
CancelReturnPartial ==
    /\ AtLLMCall /\ llm.status = "in_flight"
    /\ llm' = [status |-> "cancelled", path |-> "remote"]
    /\ net' = [net EXCEPT !.open = ClientExit(@)]
    /\ ret' = IF op = "find_similar" THEN results ELSE cmp.bd
    /\ pc' = "done"
    /\ UNCHANGED <<inputs, stdout, idx, results, cmp, error>>

\* the task is cancelled while it is suspended at line 403 (the only await that
\* suspends): CancelledError is a BaseException, so `except Exception` at line
\* 421 does not catch it; it leaves the `async with` block, compare_async and
\* find_similar_async, whose local list `results` is dropped with the frame
Cancel ==
    /\ AtLLMCall /\ llm.status = "in_flight"
    /\ llm' = [status |-> "cancelled", path |-> "remote"]
    /\ net' = [net EXCEPT !.open = ClientExit(@)]
    /\ error' = "CancelledError"
    /\ pc' = "raised"
    /\ UNCHANGED <<inputs, stdout, idx, results, cmp, ret>>

-----------------------------------------------------------------------------
(* find_similar on an engine *)

Init == InitFindSimilar

Next ==
    \/ FindReturn
    \/ FindRaise
    \/ FindSkipSelf
    \/ FindCompare
    \/ FindCollect
    \/ CompareParse
    \/ CompareRaise
    \/ LLMOffline
    \/ LLMImportError
    \/ LLMSend
    \/ \E outcome \in RemoteOutcomes : LLMRecvScore(outcome)
    \/ \E outcome \in RemoteOutcomes : LLMRecvFailure(outcome)

Spec == Init /\ [][Next]_vars

-----------------------------------------------------------------------------
(* compare on an engine *)

InitCompare ==
    /\ op = "compare"
    /\ api_key \in BOOLEAN
    /\ httpx_ok \in (IF api_key THEN BOOLEAN ELSE {TRUE})
    /\ \E pair \in {<<d, d>> : d \in Descriptors} \cup (PairCards \X PairCards) :
          cmp = [stage |-> "called", card_a |-> pair[1], card_b |-> pair[2]]
    /\ pc = "comparing"
    /\ card = CardEmpty
    /\ registry = <<>>
    /\ min_score = 0
    /\ max_results = 0
    /\ idx = 1
    /\ results = <<>>
    /\ llm = NoLLM
    /\ ret = <<>>
    /\ error = ""
    /\ prev = NoPrev
    /\ weights = WEIGHTS
    /\ stdout = <<>>
    /\ net = NoNet
    /\ fn = NoFn

NextCompare ==
    \/ CompareParse
    \/ CompareRaise
    \/ CompareReturn
    \/ LLMOffline
    \/ LLMImportError
    \/ LLMSend
    \/ \E outcome \in RemoteOutcomes : LLMRecvScore(outcome)
    \/ \E outcome \in RemoteOutcomes : LLMRecvFailure(outcome)

SpecCompare == InitCompare /\ [][NextCompare]_vars

-----------------------------------------------------------------------------
(* find_similar called twice on one engine, the second time with another min_score *)

InitRepeat ==
    /\ op = "find_similar"
    /\ api_key = FALSE
    /\ httpx_ok = TRUE
    /\ card \in RepeatQueryCards
    /\ registry \in SeqsUpTo(RepeatRegistryCards, MaxRegistry)
    /\ min_score \in MinScores
    /\ max_results \in RepeatMaxResults
    /\ pc = "loop"
    /\ idx = 1
    /\ results = <<>>
    /\ cmp = NoCompare
    /\ llm = NoLLM
    /\ ret = <<>>
    /\ error = ""
    /\ prev = NoPrev
    /\ weights = WEIGHTS
    /\ stdout = <<>>
    /\ net = NoNet
    /\ fn = NoFn

\* find_similar(card, registry, m, max_results) after the first call returned
FindAgain(m) ==
    /\ op = "find_similar" /\ pc = "done" /\ prev.calls = 0
    /\ m >= min_score
    /\ prev' = [calls |-> 1, min_score |-> min_score, count |-> Len(ret)]
    /\ min_score' = m
    /\ pc' = "loop"
    /\ idx' = 1
    /\ results' = <<>>
    /\ ret' = <<>>
    /\ UNCHANGED <<api_key, httpx_ok, op, card, registry, max_results, cmp, llm, error, fn,
                   weights, stdout, net>>

NextRepeat ==
    \/ FindReturn
    \/ FindSkipSelf
    \/ FindCompare
    \/ FindCollect
    \/ CompareParse
    \/ LLMOffline
    \/ \E m \in MinScores : FindAgain(m)

SpecRepeat == InitRepeat /\ [][NextRepeat]_vars

-----------------------------------------------------------------------------
(* compare on an engine without an api key, then the same cards on an engine  *)
(* with an api key whose every remote call fails                              *)

InitTwin ==
    /\ op = "compare"
    /\ api_key = FALSE
    /\ httpx_ok = TRUE
    /\ \E pair \in PairCards \X PairCards :
          cmp = [stage |-> "called", card_a |-> pair[1], card_b |-> pair[2]]
    /\ pc = "comparing"
    /\ card = CardEmpty
    /\ registry = <<>>
    /\ min_score = 0
    /\ max_results = 0
    /\ idx = 1
    /\ results = <<>>
    /\ llm = NoLLM
    /\ ret = <<>>
    /\ error = ""
    /\ prev = NoPrev
    /\ weights = WEIGHTS
    /\ stdout = <<>>
    /\ net = NoNet
    /\ fn = NoFn

\* ABCSimilarityEngine(api_key=key).compare(card_a, card_b) after the engine
\* without a key finished; what the first run returned, raised and printed is kept
CompareAgain ==
    /\ op = "compare" /\ pc \in {"done", "raised"} /\ prev.calls = 0
    /\ prev' = [calls |-> 1, ret |-> ret, error |-> error, stdout |-> stdout]
    /\ api_key' = TRUE
    /\ httpx_ok' \in BOOLEAN
    /\ cmp' = [stage |-> "called", card_a |-> cmp.card_a, card_b |-> cmp.card_b]
    /\ pc' = "comparing"
    /\ llm' = NoLLM
    /\ ret' = <<>>
    /\ error' = ""
    /\ stdout' = <<>>
    /\ UNCHANGED <<op, card, registry, min_score, max_results, idx, results, fn, weights, net>>

NextTwin ==
    \/ CompareParse
    \/ CompareRaise
    \/ CompareReturn
    \/ LLMOffline
    \/ LLMImportError
    \/ LLMSend
    \/ \E outcome \in RemoteOutcomes : LLMRecvFailure(outcome)
    \/ CompareAgain

SpecTwin == InitTwin /\ [][NextTwin]_vars

-----------------------------------------------------------------------------
(* find_similar with the remote scorer reachable (httpx installed), over      *)
(* registries of well-formed cards, where the caller may cancel the task      *)

\* longest registry explored in these runs
MaxServiceRegistry == 2

ServiceCards == {CardAlloc, CardBudget, CardTriage}

ServiceMinScores == {0, 300}

InitService ==
    /\ op = "find_similar"
    /\ api_key \in BOOLEAN
    /\ httpx_ok = TRUE
    /\ card = CardAlloc
    /\ registry \in SeqsUpTo(ServiceCards, MaxServiceRegistry)
    /\ min_score \in ServiceMinScores
    /\ max_results = 10
    /\ pc = "loop"
    /\ idx = 1
    /\ results = <<>>
    /\ cmp = NoCompare
    /\ llm = NoLLM
    /\ ret = <<>>
    /\ error = ""
    /\ prev = NoPrev
    /\ weights = WEIGHTS
    /\ stdout = <<>>
    /\ net = NoNet
    /\ fn = NoFn

NextService ==
    \/ FindReturn
    \/ FindSkipSelf
    \/ FindCompare
    \/ FindCollect
    \/ CompareParse
    \/ LLMOffline
    \/ LLMSend
    \/ \E outcome \in RemoteOutcomes : LLMRecvScore(outcome)
    \/ \E outcome \in RemoteOutcomes : LLMRecvFailure(outcome)
    \/ Cancel

SpecService == InitService /\ [][NextService]_vars

-----------------------------------------------------------------------------
(* compare and find_similar with an api key against a remote service that     *)
(* never responds: every request ends by the timeout of line 415.  The event  *)
(* loop runs the task whenever it can take a step (weak fairness).            *)

\* timeout=30.0 at line 415: the request raises httpx.TimeoutException
TimedOut == [kind |-> "timeout"]

InitLive ==
    /\ op \in {"find_similar", "compare"}
    /\ api_key = TRUE
    /\ httpx_ok = TRUE
    /\ card = CardAlloc
    /\ registry \in IF op = "find_similar"
                     THEN SeqsUpTo(ServiceCards, MaxServiceRegistry)
                     ELSE {<<>>}
    /\ min_score \in ServiceMinScores
    /\ max_results = 10
    /\ pc = IF op = "find_similar" THEN "loop" ELSE "comparing"
    /\ idx = 1
    /\ results = <<>>
    /\ cmp \in IF op = "find_similar"
                THEN {NoCompare}
                ELSE {[stage |-> "called", card_a |-> a, card_b |-> b] :
                        a \in ServiceCards, b \in ServiceCards}
    /\ llm = NoLLM
    /\ ret = <<>>
    /\ error = ""
    /\ prev = NoPrev
    /\ weights = WEIGHTS
    /\ stdout = <<>>
    /\ net = NoNet
    /\ fn = NoFn

NextLive ==
    \/ FindReturn
    \/ FindSkipSelf
    \/ FindCompare
    \/ FindCollect
    \/ CompareParse
    \/ CompareReturn
    \/ LLMSend
    \/ LLMRecvFailure(TimedOut)

SpecLive == InitLive /\ [][NextLive]_vars /\ WF_vars(NextLive)

-----------------------------------------------------------------------------
(* compare(A, B) on an engine without an api key, then compare(B, A) on the   *)
(* same engine, over descriptors that differ in one section at a time         *)

\* a descriptor with every section empty
ContentBlank ==
    [ category     |-> <<>>,
      description  |-> <<>>,
      sub_patterns |-> <<>>,
      inputs       |-> <<>>,
      outputs      |-> <<>>,
      method       |-> <<>>,
      approach     |-> <<>>,
      data_assumptions      |-> <<>>,
      authority_assumptions |-> <<>>,
      adaptation_points     |-> <<>>,
      emits        |-> <<>>,
      listens_to   |-> <<>>,
      delegates_to |-> <<>> ]

\* sub-pattern tag lists: none, two lists sharing a tag and a token, a tag
\* twice, a tag that differs from another by case only, tags without a letter
TagLists ==
    { <<>>,
      << <<"f", "c", "-", "u", "n">>, <<"a", "l">> >>,
      << <<"f", "c", "-", "r", "i", "s", "k">>, <<"a", "l">> >>,
      << <<"a", "l">>, <<"a", "l">> >>,
      << <<"A", "l">> >>,
      << <<"7">> >>,
      << <<"8">> >> }

\* inputs and outputs: none, two that share the token d among their input
\* names and have the same output, two inputs only, two outputs only
IOLists ==
    { [inputs |-> <<>>, outputs |-> <<>>],
      [inputs  |-> << [name |-> <<"d", "_", "s", "i", "g">>] >>,
       outputs |-> << [name |-> <<"a", "_", "p", "l">>] >>],
      [inputs  |-> << [name |-> <<"d", "_", "f", "c">>] >>,
       outputs |-> << [name |-> <<"a", "_", "p", "l">>] >>],
      [inputs  |-> << Field(<<"d", "_", "f", "c">>, <<"t", "s">>) >>,
       outputs |-> << Field(<<"a", "_", "p", "l">>, <<"p", "l">>),
                      Field(<<"l", "o", "g">>, <<"t", "x", "t">>) >>],
      [inputs  |-> << Field(<<"m", "s", "g">>, <<"s", "t", "r">>),
                      Field(<<"c", "h">>, <<"s", "t", "r">>) >>,
       outputs |-> <<>>],
      [inputs  |-> <<>>,
       outputs |-> << Field(<<"d", "o", "c">>, <<"p", "d", "f">>),
                      Field(<<"l", "o", "g">>, <<"t", "x", "t">>) >>] }

\* assumptions: none, distinct ids, two entries sharing an id, two entries
\* without an id, an entry without a strength
AssumptionLists ==
    { <<>>,
      << Assume(<<"d", "1">>, "hard") >>,
      << Assume(<<"d", "1">>, "soft"), Assume(<<"d", "2">>, "hard"),
         Assume(<<"d", "3">>, "hard") >>,
      << Assume(<<"d", "1">>, "soft"), Assume(<<"d", "1">>, "hard") >>,
      << [strength |-> "hard"], [strength |-> "soft"] >>,
      << [id |-> <<"d", "3">>] >> }

\* adaptation points: none, distinct ids, four and five swappable ones (nine
\* together), two entries sharing an id, four entries without an id
PointLists ==
    { <<>>,
      << Point(<<"p", "1">>, "swappable_component"), Point(<<"p", "2">>, "configurable"),
         Point(<<"p", "3">>, "configurable") >>,
      << Point(<<"p", "1">>, "swappable_component"), Point(<<"p", "2">>, "swappable_component"),
         Point(<<"p", "3">>, "swappable_component"), Point(<<"p", "4">>, "swappable_component") >>,
      << Point(<<"p", "1">>, "swappable_component"), Point(<<"p", "2">>, "swappable_component"),
         Point(<<"p", "3">>, "swappable_component"), Point(<<"p", "4">>, "swappable_component"),
         Point(<<"p", "5">>, "swappable_component") >>,
      << Point(<<"p", "1">>, "configurable"), Point(<<"p", "1">>, "swappable_component"),
         Point(<<"p", "2">>, "configurable") >>,
      << [type |-> "swappable_component"], [type |-> "swappable_component"],
         [type |-> "configurable"], [type |-> "configurable"] >> }

\* compositions: none, two that emit what the other listens to, one that emits
\* what it listens to, one with two listened events of which one is emitted by
\* another, one with an event listed twice, delegates only
CompositionLists ==
    { [emits |-> <<>>, listens_to |-> <<>>, delegates_to |-> <<>>],
      [emits        |-> << Event(<<"p", "l", ".", "o", "k">>) >>,
       listens_to   |-> << Event(<<"d", ".", "u", "p">>) >>,
       delegates_to |-> << [interface |-> <<"F", "c">>] >>],
      [emits        |-> << Event(<<"d", ".", "u", "p">>) >>,
       listens_to   |-> << Event(<<"p", "l", ".", "o", "k">>) >>,
       delegates_to |-> << [interface |-> <<"f", "c">>] >>],
      [emits        |-> << Event(<<"t", "i", "c", "k">>) >>,
       listens_to   |-> << Event(<<"t", "i", "c", "k">>) >>,
       delegates_to |-> <<>>],
      [emits        |-> <<>>,
       listens_to   |-> << Event(<<"d", ".", "u", "p">>), Event(<<"q", "1">>) >>,
       delegates_to |-> <<>>],
      [emits        |-> << Event(<<"q", "1">>), Event(<<"q", "1">>) >>,
       listens_to   |-> << Event(<<"p", "l", ".", "o", "k">>),
                           Event(<<"p", "l", ".", "o", "k">>) >>,
       delegates_to |-> << [interface |-> <<"w">>] >>] }

\* the descriptors that differ from the blank one in one section
WithTags == {FullCard(<<"D">>, [ContentBlank EXCEPT !.sub_patterns = x]) : x \in TagLists}

WithIO ==
    {FullCard(<<"D">>, [ContentBlank EXCEPT !.inputs = x.inputs, !.outputs = x.outputs]) :
        x \in IOLists}

\* one descriptor declares the same three assumptions in two categories
WithAssumptions ==
    {FullCard(<<"D">>, [ContentBlank EXCEPT !.data_assumptions = x]) : x \in AssumptionLists}
    \cup {FullCard(<<"D">>, [ContentBlank EXCEPT !.data_assumptions = x,
                                                 !.authority_assumptions = x]) :
            x \in {<< Assume(<<"d", "1">>, "soft"), Assume(<<"d", "2">>, "hard"),
                      Assume(<<"d", "3">>, "hard") >>}}

WithPoints ==
    {FullCard(<<"D">>, [ContentBlank EXCEPT !.adaptation_points = x]) : x \in PointLists}

WithComposition ==
    {FullCard(<<"D">>, [ContentBlank EXCEPT !.emits = x.emits, !.listens_to = x.listens_to,
                                            !.delegates_to = x.delegates_to]) :
        x \in CompositionLists}

\* the well-formed cards with every section filled in
WholeCards == {CardAlloc, CardBudget, CardTriage, CardReport, CardEmpty, CardNameless}

\* the ordered pairs compared
SwapPairs ==
    (WithTags \X WithTags) \cup (WithIO \X WithIO)
    \cup ((WithAssumptions \cup WithPoints) \X (WithAssumptions \cup WithPoints))
    \cup (WithComposition \X WithComposition) \cup (WholeCards \X WholeCards)

InitSwap ==
    /\ op = "compare"
    /\ api_key = FALSE
    /\ httpx_ok = TRUE
    /\ \E pair \in SwapPairs :
          cmp = [stage |-> "called", card_a |-> pair[1], card_b |-> pair[2]]
    /\ pc = "comparing"
    /\ card = CardEmpty
    /\ registry = <<>>
    /\ min_score = 0
    /\ max_results = 0
    /\ idx = 1
    /\ results = <<>>
    /\ llm = NoLLM
    /\ ret = <<>>
    /\ error = ""
    /\ prev = NoPrev
    /\ weights = WEIGHTS
    /\ stdout = <<>>
    /\ net = NoNet
    /\ fn = NoFn

\* engine.compare(card_b, card_a) after engine.compare(card_a, card_b) returned;
\* what the first call was given and what it returned is kept
CompareSwapped ==
    /\ op = "compare" /\ pc = "done" /\ prev.calls = 0
    /\ prev' = [calls |-> 1, card_a |-> cmp.card_a, card_b |-> cmp.card_b, ret |-> ret]
    /\ cmp' = [stage |-> "called", card_a |-> cmp.card_b, card_b |-> cmp.card_a]
    /\ pc' = "comparing"
    /\ llm' = NoLLM
    /\ ret' = <<>>
    /\ UNCHANGED <<api_key, httpx_ok, op, card, registry, min_score, max_results, idx,
                   results, error, fn, weights, stdout, net>>

NextSwap ==
    \/ CompareParse
    \/ CompareReturn
    \/ LLMOffline
    \/ CompareSwapped

SpecSwap == InitSwap /\ [][NextSwap]_vars

-----------------------------------------------------------------------------
(* the module-level functions called directly *)

InitPrimitives ==
    /\ op = "function"
    /\ \/ \E set_a \in SUBSET (1..MaxElements), set_b \in SUBSET (1..MaxElements) :
             fn = [name |-> "jaccard_similarity", set_a |-> set_a, set_b |-> set_b,
                   status |-> "called"]
       \/ \E card_data \in ParseCards :
             fn = [name |-> "parse_card", card_data |-> card_data, status |-> "called"]
    /\ api_key = FALSE
    /\ httpx_ok = TRUE
    /\ card = CardEmpty
    /\ registry = <<>>
    /\ min_score = 0
    /\ max_results = 0
    /\ pc = "idle"
    /\ idx = 1
    /\ results = <<>>
    /\ cmp = NoCompare
    /\ llm = NoLLM
    /\ ret = <<>>
    /\ error = ""
    /\ prev = NoPrev
    /\ weights = WEIGHTS
    /\ stdout = <<>>
    /\ net = NoNet

CallJaccard ==
    /\ op = "function" /\ fn.name = "jaccard_similarity" /\ fn.status = "called"
    /\ fn' = [fn EXCEPT !.status = "returned"]
    /\ ret' = jaccard_similarity(fn.set_a, fn.set_b)
    /\ UNCHANGED <<api_key, httpx_ok, op, card, registry, min_score, max_results,
                   pc, idx, results, cmp, llm, error, prev, weights, stdout, net>>

\* parse_card(card_data) returns the ParsedCard (lines 153-205)
CallParseCard ==
    /\ op = "function" /\ fn.name = "parse_card" /\ fn.status = "called"
    /\ ~ParseRaises(fn.card_data)
    /\ fn' = [fn EXCEPT !.status = "returned", !.card_data = card_after_parse(@)]
    /\ ret' = parse_card(fn.card_data.val)
    /\ UNCHANGED <<api_key, httpx_ok, op, card, registry, min_score, max_results,
                   pc, idx, results, cmp, llm, error, prev, weights, stdout, net>>

\* parse_card(card_data) calls .get on a value that has none
CallParseCardRaise ==
    /\ op = "function" /\ fn.name = "parse_card" /\ fn.status = "called"
    /\ ParseRaises(fn.card_data)
    /\ fn' = [fn EXCEPT !.status = "raised"]
    /\ error' = "AttributeError"
    /\ UNCHANGED <<api_key, httpx_ok, op, card, registry, min_score, max_results,
                   pc, idx, results, cmp, llm, ret, prev, weights, stdout, net>>

NextPrimitives ==
    \/ CallJaccard
    \/ CallParseCard
    \/ CallParseCardRaise

SpecPrimitives == InitPrimitives /\ [][NextPrimitives]_vars

-----------------------------------------------------------------------------
(* abc_check.py: the abc-check process, from main() to its exit code.  Scores *)
(* are in tenths of a point (calculate_score rounds to one decimal), the      *)
(* overall score in thousandths.  The checks of validate_card, validate_trust *)
(* and validate_implementation are not modelled: their scores are inputs.     *)

\* a file of the directory (or the file the path names): its name, what
\* yaml.safe_load makes of it, and the scores its content earns
CardFile(c, t) ==
    [ name |-> "x.yaml", content |-> "dict", abc_version |-> TRUE, identity_null |-> FALSE,
      card_validation_score |-> c, trust_score |-> t ]

\* not YAML: yaml.safe_load raises
FileUnparseable == [CardFile(0, 0) EXCEPT !.content = "unparseable"]

\* YAML whose top level is a list
FileList == [CardFile(0, 0) EXCEPT !.content = "list"]

\* a mapping with abc_version whose `identity:` is null
FileNullIdentity == [CardFile(0, 0) EXCEPT !.identity_null = TRUE]

\* a mapping without abc_version
FilePlain == [CardFile(300, 0) EXCEPT !.abc_version = FALSE]

\* a file with the conventional name that is not YAML
FileNamedUnparseable == [FileUnparseable EXCEPT !.name = "abc-card.yaml"]

Files ==
    { CardFile(1000, 1000), CardFile(900, 900), CardFile(900, 898), CardFile(700, 700),
      CardFile(500, 500), CardFile(498, 500),
      FileUnparseable, FileList, FileNullIdentity, FilePlain, FileNamedUnparseable }

\* most files in the directory the path names
MaxFiles == 2

ImplementationScores == {0, 1000}

Paths ==
    {[kind |-> "missing", files |-> <<>>]}
    \cup {[kind |-> "file", files |-> <<f>>] : f \in Files}
    \cup {[kind |-> "dir", files |-> fs] : fs \in SeqsUpTo(Files, MaxFiles)}

\* determine_level, on a score in thousandths
determine_level(score) ==
    IF score >= 90000 THEN "ABC Certified"
    ELSE IF score >= 70000 THEN "ABC Compatible"
    ELSE IF score >= 50000 THEN "ABC Aspirational"
    ELSE "Non-compliant"

\* lines 1236-1239 and 1248-1251: the exit code main() derives from a score
exit_code(score) ==
    IF score >= 90000 THEN 0
    ELSE IF score >= 70000 THEN 1
    ELSE IF score >= 50000 THEN 2
    ELSE 3

\* the test at lines 1061, 1069 and 1202
IsCard(f) == f.content = "dict" /\ f.abc_version

\* find_card: the first file with a conventional name, else the first file
\* that loads as a mapping with abc_version; <<>> stands for None
find_card(fs) ==
    IF \E j \in DOMAIN fs : fs[j].name = "abc-card.yaml"
    THEN <<fs[CHOOSE j \in DOMAIN fs :
                /\ fs[j].name = "abc-card.yaml"
                /\ \A m \in DOMAIN fs : m < j => fs[m].name # "abc-card.yaml"]>>
    ELSE IF \E j \in DOMAIN fs : IsCard(fs[j])
    THEN <<fs[CHOOSE j \in DOMAIN fs :
                IsCard(fs[j]) /\ \A m \in DOMAIN fs : m < j => ~IsCard(fs[m])]>>
    ELSE <<>>

\* run_check from the loaded card on (lines 1114-1159): the identity lookup of
\* line 1114 raises on a null identity; else the report
check_card(f, project, implementation_score) ==
    IF f.identity_null
    THEN [outcome |-> "raise", error |-> "AttributeError", overall_score |-> 0, level |-> ""]
    ELSE LET overall == IF project
                        THEN 30 * f.card_validation_score + 30 * f.trust_score
                             + 40 * implementation_score
                        ELSE 55 * f.card_validation_score + 45 * f.trust_score
         IN  [outcome |-> "report", error |-> "", overall_score |-> overall,
              level |-> determine_level(overall)]

Exit4 == [outcome |-> "exit", error |-> "", overall_score |-> 0, level |-> ""]

\* run_check(path, card_only): sys.exit(4), an exception, or the report
run_check(path, card_only, implementation_score) ==
    LET load(f, project) ==
            IF f.content = "dict" THEN check_card(f, project, implementation_score)
            ELSE Exit4                       \* lines 1103-1112
    IN  IF path.kind = "file" THEN load(path.files[1], FALSE)
        ELSE IF card_only THEN Exit4         \* open() of a directory or of nothing raises
        ELSE IF path.kind = "dir"
        THEN IF find_card(path.files) = <<>> THEN Exit4
             ELSE load(find_card(path.files)[1], TRUE)
        ELSE Exit4                           \* lines 1098-1100

\* the exit code of a Python process that ends with an uncaught exception
UncaughtExit == 1

InitCheck ==
    /\ op = "abc_check"
    /\ \E path \in Paths, batch \in BOOLEAN, card_only \in BOOLEAN,
          implementation_score \in ImplementationScores :
          fn = [name |-> "main", path |-> path, batch |-> batch, card_only |-> card_only,
                implementation_score |-> implementation_score, status |-> "called"]
    /\ pc = "main"
    /\ idx = 1
    /\ results = <<>>
    /\ ret = <<>>
    /\ error = ""
    /\ stdout = <<>>
    /\ net = NoNet
    /\ api_key = FALSE
    /\ httpx_ok = TRUE
    /\ card = CardEmpty
    /\ registry = <<>>
    /\ min_score = 0
    /\ max_results = 0
    /\ cmp = NoCompare
    /\ llm = NoLLM
    /\ prev = NoPrev
    /\ weights = WEIGHTS

CheckFrame == <<api_key, httpx_ok, op, card, registry, min_score, max_results, cmp, llm,
                prev, weights, stdout, net>>

\* lines 1242-1251: run_check returned its report
MainSingleReport ==
    /\ op = "abc_check" /\ pc = "main" /\ ~fn.batch
    /\ LET r == run_check(fn.path, fn.card_only, fn.implementation_score)
       IN  /\ r.outcome = "report"
           /\ ret' = [exit_code |-> exit_code(r.overall_score), report |-> <<r>>]
    /\ pc' = "exited"
    /\ UNCHANGED <<CheckFrame, fn, idx, results, error>>

\* run_check called sys.exit(4)
MainSingleInvalid ==
    /\ op = "abc_check" /\ pc = "main" /\ ~fn.batch
    /\ run_check(fn.path, fn.card_only, fn.implementation_score).outcome = "exit"
    /\ ret' = [exit_code |-> 4, report |-> <<>>]
    /\ pc' = "exited"
    /\ UNCHANGED <<CheckFrame, fn, idx, results, error>>

\* run_check raised, nothing in main() catches it: traceback, exit code 1
MainSingleCrash ==
    /\ op = "abc_check" /\ pc = "main" /\ ~fn.batch
    /\ LET r == run_check(fn.path, fn.card_only, fn.implementation_score)
       IN  /\ r.outcome = "raise"
           /\ error' = r.error
    /\ ret' = [exit_code |-> UncaughtExit, report |-> <<>>]
    /\ pc' = "exited"
    /\ UNCHANGED <<CheckFrame, fn, idx, results>>

\* lines 1189-1194: --batch with a path that is not a directory
MainBatchNotDir ==
    /\ op = "abc_check" /\ pc = "main" /\ fn.batch /\ fn.path.kind # "dir"
    /\ ret' = [exit_code |-> 4, report |-> <<>>]
    /\ pc' = "exited"
    /\ UNCHANGED <<CheckFrame, fn, idx, results, error>>

\* lines 1196-1198
MainBatchStart ==
    /\ op = "abc_check" /\ pc = "main" /\ fn.batch /\ fn.path.kind = "dir"
    /\ pc' = "batch_loop"
    /\ idx' = 1
    /\ results' = <<>>
    /\ UNCHANGED <<CheckFrame, fn, ret, error>>

\* lines 1198-1206: a card file whose check returns a report
BatchCheck ==
    /\ op = "abc_check" /\ pc = "batch_loop" /\ idx <= Len(fn.path.files)
    /\ LET f == fn.path.files[idx]
           r == check_card(f, FALSE, fn.implementation_score)
       IN  /\ IsCard(f) /\ r.outcome = "report"
           /\ results' = Append(results, r)
    /\ idx' = idx + 1
    /\ UNCHANGED <<CheckFrame, fn, pc, ret, error>>

\* lines 1198-1208: a file that does not load, is not a card, or whose check
\* raises (printed as Skipping)
BatchSkip ==
    /\ op = "abc_check" /\ pc = "batch_loop" /\ idx <= Len(fn.path.files)
    /\ LET f == fn.path.files[idx]
       IN  ~IsCard(f) \/ check_card(f, FALSE, fn.implementation_score).outcome = "raise"
    /\ idx' = idx + 1
    /\ UNCHANGED <<CheckFrame, fn, pc, results, ret, error>>

\* the lowest overall_score of the reports (line 1235)
RECURSIVE MinScore(_)
MinScore(rs) ==
    IF Len(rs) = 1 THEN rs[1].overall_score
    ELSE Min(rs[1].overall_score, MinScore(Tail(rs)))

\* lines 1233-1240
BatchExit ==
    /\ op = "abc_check" /\ pc = "batch_loop" /\ idx > Len(fn.path.files)
    /\ ret' = [exit_code |-> IF results # <<>> THEN exit_code(MinScore(results)) ELSE 0,
               report |-> results]
    /\ pc' = "exited"
    /\ UNCHANGED <<CheckFrame, fn, idx, results, error>>

NextCheck ==
    \/ MainSingleReport
    \/ MainSingleInvalid
    \/ MainSingleCrash
    \/ MainBatchNotDir
    \/ MainBatchStart
    \/ BatchCheck
    \/ BatchSkip
    \/ BatchExit

SpecCheck == InitCheck /\ [][NextCheck]_vars

-----------------------------------------------------------------------------
(* Properties *)

\* C1: find_similar never returns (nor collects) a match for a registry entry
\* whose identity name equals the query card's identity name.
C1_NoSelfMatch ==
    \A m \in Range(results) \cup Range(ret) :
        IdentityName(registry[m.reg_index]) # IdentityName(card)

\* the registry holds an entry with the query's name, and matches are returned
C1_Witness ==
    /\ pc = "done" /\ Len(ret) > 0
    /\ \E j \in DOMAIN registry : IdentityName(registry[j]) = IdentityName(card)

\* C2: the returned list is in descending order of composite score, and matches
\* of equal score are in the order of their entries in the registry.
C2_SortedStable ==
    pc = "done" =>
        \A p, q \in DOMAIN ret :
            p < q => \/ ret[p].score > ret[q].score
                     \/ /\ ret[p].score = ret[q].score
                        /\ ret[p].reg_index < ret[q].reg_index

\* two matches of equal score are returned
C2_Witness ==
    /\ pc = "done" /\ Len(ret) = 2
    /\ ret[1].score = ret[2].score

\* C3: a compared candidate is appended to the results exactly when its composite
\* score is >= min_score (so one scoring exactly min_score is kept), and every
\* collected or returned match has a score >= min_score.
C3_ThresholdFilter ==
    [][ /\ \A m \in Range(results') \cup Range(ret') : m.score >= min_score'
        /\ (pc = "comparing" /\ cmp.stage = "returned" /\ pc' = "loop") =>
              IF composite_score(cmp.bd) >= min_score
              THEN /\ Len(results') = Len(results) + 1
                   /\ results'[Len(results')].score = composite_score(cmp.bd)
                   /\ results'[Len(results')].reg_index = idx
                   /\ SubSeq(results', 1, Len(results)) = results
              ELSE results' = results ]_vars

\* a match whose score is exactly min_score is returned
C3_Witness ==
    /\ pc = "done"
    /\ \E k \in DOMAIN ret : ret[k].score = min_score

\* C4: find_similar returns the first max_results entries of the ranked list of
\* qualifying candidates (held by `results` once sorted), all of them when there
\* are at most max_results.
C4_Truncation ==
    pc = "done" =>
        /\ Len(ret) <= max_results
        /\ Len(ret) = Min(max_results, Len(results))
        /\ \A k \in DOMAIN ret : ret[k] = results[k]
        /\ Len(results) <= max_results => ret = results

\* more candidates qualify than max_results allows, and some are returned
C4_Witness ==
    /\ pc = "done"
    /\ max_results >= 1
    /\ Len(results) > max_results

\* C5: without an api key, calling find_similar again with the same card,
\* registry and max_results and a min_score that is not lower returns no more
\* matches than the first call.
C5_MinScoreMonotone ==
    (pc = "done" /\ prev.calls = 1 /\ prev.min_score <= min_score) =>
        Len(ret) <= prev.count

\* the second call has a higher min_score and returns fewer matches
C5_Witness ==
    /\ pc = "done" /\ prev.calls = 1
    /\ prev.min_score < min_score
    /\ Len(ret) < prev.count

\* a descriptor is compared with itself without an api key, and compare returned
SelfCompared ==
    /\ op = "compare" /\ pc = "done" /\ ~api_key
    /\ cmp.card_a = cmp.card_b

C7_CompositeInUnitInterval ==
    (op = "compare" /\ pc = "done") =>
        composite_score(ret) >= 0 /\ composite_score(ret) <= 1000

\* C8: jaccard_similarity returns 1.0 when both sets are empty, 0.0 when exactly
\* one is empty, and |A n B| / |A u B| otherwise.
C8_JaccardCases ==
    (op = "function" /\ fn.name = "jaccard_similarity" /\ fn.status = "returned") =>
        LET A == fn.set_a
            B == fn.set_b
        IN  /\ (A = {} /\ B = {}) => ret = <<1, 1>>
            /\ ((A = {}) # (B = {})) => ret = <<0, 1>>
            /\ (A # {} /\ B # {}) =>
                  ret[1] * Cardinality(A \cup B) = Cardinality(A \cap B) * ret[2]

\* jaccard_similarity returned for two empty sets
C8_Witness ==
    /\ op = "function" /\ fn.name = "jaccard_similarity" /\ fn.status = "returned"
    /\ fn.set_a = {} /\ fn.set_b = {}

\* C9: when the remote request fails, compute_llm_similarity returns what the
\* offline token-Jaccard variant returns for the same two texts.
C9_FallbackEqualsOffline ==
    llm.path = "fallback" =>
        llm.value = OfflineTokenJaccard(llm.text_a, llm.text_b)

\* a call fell back on texts that overlap in part
C9_Witness ==
    /\ llm.path = "fallback"
    /\ llm.value > 0 /\ llm.value < 1000

\* C10: with an api key configured, no failure of the remote scoring path
\* (an unavailable HTTP client included) leaves compute_llm_similarity, compare
\* or find_similar as an error.
C10_RemoteFailureNeverPropagates ==
    api_key => error # "ModuleNotFoundError"

\* C11: the semantic score compute_llm_similarity returns is in [0, 1] in both
\* variants; a remote response whose score is not a number within [0, 1] is
\* replaced by the offline fallback score.
C11_SemanticScoreInUnitInterval ==
    (llm.status = "idle" /\ llm.path # "none") =>
        llm.value >= 0 /\ llm.value <= 1000

\* C12: for the same pair of cards, a compare on an engine with an api key whose
\* every remote call failed ends like the compare on an engine without a key:
\* the same breakdown (or the same error), the same explanation text and the
\* same standard output.
C12_FallbackIndistinguishable ==
    (op = "compare" /\ prev.calls = 1 /\ pc \in {"done", "raised"}) =>
        /\ ret = prev.ret
        /\ error = prev.error
        /\ pc = "done" => explanation(ret) = explanation(prev.ret)
        /\ stdout = prev.stdout

\* the part of C12 the code keeps: when every request was sent and failed, the
\* breakdown and its explanation are those of the engine without a key
C12_SameBreakdownAfterFailures ==
    (op = "compare" /\ prev.calls = 1 /\ pc = "done") =>
        /\ ret = prev.ret
        /\ explanation(ret) = explanation(prev.ret)
        /\ Len(stdout) = 2

\* C13: parse_card raises exactly when the top-level value is not a keyed
\* mapping; on a keyed mapping it returns a record in which every field of an
\* absent section is the empty string or the empty collection.
C13_ParseCardTotalOnMappings ==
    (op = "function" /\ fn.name = "parse_card" /\ fn.status # "called") =>
        /\ fn.status = "raised" <=> ~IsDict(fn.card_data)
        /\ fn.status = "returned" =>
              LET d == fn.card_data.val
              IN  /\ "identity" \notin DOMAIN d => ret.name = <<>>
                  /\ "problem_pattern" \notin DOMAIN d =>
                        /\ ret.problem_category = <<>>
                        /\ ret.problem_description = <<>>
                        /\ ret.sub_patterns = <<>>
                  /\ "behavior" \notin DOMAIN d =>
                        /\ ret.input_names = <<>> /\ ret.input_types = <<>>
                        /\ ret.output_names = <<>> /\ ret.output_types = <<>>
                        /\ ret.reasoning_method = <<>> /\ ret.reasoning_approach = <<>>
                        /\ ret.objectives = <<>>
                  /\ "domain_assumptions" \notin DOMAIN d =>
                        /\ ret.assumption_ids = <<>>
                        /\ DOMAIN ret.assumption_strengths = {}
                  /\ "adaptation_points" \notin DOMAIN d =>
                        /\ ret.adaptation_point_ids = <<>>
                        /\ DOMAIN ret.adaptation_point_types = {}
                  /\ "composition" \notin DOMAIN d =>
                        /\ ret.emitted_events = <<>> /\ ret.consumed_events = <<>>
                        /\ ret.delegate_interfaces = <<>>

\* C14: with a well-formed query card, a registry entry that cannot be parsed
\* does not abort find_similar: no parse error leaves the call, and the call
\* returns matches for well-formed candidates only.
C14_MalformedCandidateSkipped ==
    (op = "find_similar" /\ ~ParseRaises(card)) =>
        /\ error # "AttributeError"
        /\ pc = "done" => \A m \in Range(ret) : ~ParseRaises(registry[m.reg_index])

\* C15: when the query card is malformed, compare and find_similar end with an
\* error for every registry, the empty one included; they never return a
\* breakdown or a match list.
C15_MalformedQueryFails ==
    /\ (op = "find_similar" /\ ParseRaises(card)) => pc # "done"
    /\ (op = "compare" /\ ParseRaises(cmp.card_a)) => pc # "done"

\* C16: no step of parse_card, compare or find_similar changes the query card,
\* a registry entry, the registry's order or length, the cards compare was
\* given, or the shared weight table, whether the call returns or raises.
C16_InputsUnchanged ==
    [][ /\ card' = card
        /\ registry' = registry
        /\ weights' = weights
        /\ (cmp.stage # "idle" /\ cmp'.stage # "idle") =>
              (cmp'.card_a = cmp.card_a /\ cmp'.card_b = cmp.card_b)
        /\ (fn.name = "parse_card") => fn'.card_data = fn.card_data ]_vars

\* a find_similar that compared and collected a candidate and then raised
C16_Witness ==
    /\ op = "find_similar" /\ pc = "raised"
    /\ results # <<>>
    /\ weights = WEIGHTS

\* the card file a run of abc-check without --batch reads, <<>> when none
CheckedFile ==
    IF fn.path.kind = "file" THEN fn.path.files
    ELSE IF fn.path.kind = "dir" /\ ~fn.card_only THEN find_card(fn.path.files)
    ELSE <<>>

\* C17: the exit code of abc-check is 0 for an overall score >= 90, 1 for
\* 70-89, 2 for 50-69, 3 below 50 and 4 on invalid input (no card, or a card
\* that is not a well-formed mapping); it agrees with the level in the report,
\* and with --batch it is the code of the lowest-scoring card.
C17_ExitCodeFollowsScore ==
    (op = "abc_check" /\ pc = "exited") =>
        /\ (~fn.batch /\ ret.report # <<>>) =>
              LET r == ret.report[1]
              IN  /\ ret.exit_code = 0 <=> r.overall_score >= 90000
                  /\ ret.exit_code = 1 <=> (r.overall_score >= 70000 /\ r.overall_score < 90000)
                  /\ ret.exit_code = 2 <=> (r.overall_score >= 50000 /\ r.overall_score < 70000)
                  /\ ret.exit_code = 3 <=> r.overall_score < 50000
                  /\ ret.exit_code = 0 <=> r.level = "ABC Certified"
                  /\ ret.exit_code = 1 <=> r.level = "ABC Compatible"
                  /\ ret.exit_code = 2 <=> r.level = "ABC Aspirational"
                  /\ ret.exit_code = 3 <=> r.level = "Non-compliant"
        /\ (~fn.batch /\ (CheckedFile = <<>> \/ CheckedFile[1].content # "dict"
                                             \/ CheckedFile[1].identity_null)) =>
              ret.exit_code = 4
        /\ (fn.batch /\ fn.path.kind # "dir") => ret.exit_code = 4
        /\ (fn.batch /\ ret.report # <<>>) =>
              \E j \in DOMAIN ret.report :
                 /\ \A m \in DOMAIN ret.report :
                       ret.report[j].overall_score <= ret.report[m].overall_score
                 /\ ret.exit_code = exit_code(ret.report[j].overall_score)
                 /\ determine_level(ret.report[j].overall_score) = ret.report[j].level

\* C18: each of the four deterministic calculators (sub-pattern overlap, I/O
\* structural similarity, adaptation portability, composition compatibility)
\* yields a value in [0, 1] for the two parsed cards of a compare.
C18_CalculatorsInUnitInterval ==
    (cmp.stage = "returned") =>
        \A d \in {"sub_pattern_overlap", "io_structural_similarity",
                   "adaptation_portability", "composition_compatibility"} :
            cmp.bd[d] >= 0 /\ cmp.bd[d] <= 1000

\* the weighted sum of six dimensions with the claimed weights, in millionths
ClaimedTotal(bd) ==
    300 * bd.problem_pattern_similarity + 150 * bd.sub_pattern_overlap
    + 200 * bd.io_structural_similarity + 100 * bd.reasoning_similarity
    + 150 * bd.adaptation_portability + 100 * bd.composition_compatibility

\* C19: the weight table holds 0.30, 0.15, 0.20, 0.10, 0.15, 0.10, which sum to
\* 1.0; the score stored with every match is the weighted sum of the six
\* dimensions of its breakdown rounded to 3 decimals (within half a
\* thousandth of the sum), and matches with equal dimensions have equal scores.
C19_CompositeIsWeightedSum ==
    /\ weights.problem_pattern_similarity = 300 /\ weights.sub_pattern_overlap = 150
    /\ weights.io_structural_similarity = 200 /\ weights.reasoning_similarity = 100
    /\ weights.adaptation_portability = 150 /\ weights.composition_compatibility = 100
    /\ DOMAIN weights = Range(Dimensions)
    /\ WeightedTotal([d \in Range(Dimensions) |-> 1], Dimensions) = 1000
    /\ op = "find_similar" =>
          /\ \A m \in Range(results) \cup Range(ret) :
                Abs(1000 * m.score - ClaimedTotal(m.breakdown)) <= 500
          /\ \A m1, m2 \in Range(results) \cup Range(ret) :
                m1.breakdown = m2.breakdown => m1.score = m2.score

\* a returned list with two matches of equal dimensions, whose weighted sum is
\* not a whole number of thousandths
C19_Witness ==
    /\ op = "find_similar" /\ pc = "done"
    /\ \E j, k \in DOMAIN ret :
          /\ j # k
          /\ ret[j].breakdown = ret[k].breakdown
          /\ ClaimedTotal(ret[j].breakdown) % 1000 # 0

\* the registry positions whose compare_async call has started and not returned
InFlight == IF op = "find_similar" /\ pc = "comparing" THEN {idx} ELSE {}

\* the registry positions after idx that find_similar_async will compare
ToCompare ==
    {j \in DOMAIN registry :
        j > idx /\ ~IdentityRaises(registry[j]) /\ ~IsSelf(registry[j], card)}

\* C20 as claimed: find_similar dispatches its comparisons concurrently: while
\* a comparison is in flight and another candidate is left to compare, more
\* than one comparison is in flight.
C20_BoundedConcurrency ==
    (InFlight # {} /\ ToCompare # {}) => Cardinality(InFlight) > 1

\* C20 as the code has it: find_similar runs its comparisons one at a time in
\* registry order.  The comparison in flight is that of registry[idx], every
\* match collected so far belongs to an earlier position, matches are collected
\* in registry order, no comparison outlives its loop iteration, and a remote
\* request in flight belongs to the one comparison in flight.
C20_OneAtATime ==
    op = "find_similar" =>
        /\ Cardinality(InFlight) <= 1
        /\ pc = "comparing" =>
              /\ cmp.stage # "idle"
              /\ cmp.card_a = card /\ cmp.card_b = registry[idx]
              /\ \A m \in Range(results) : m.reg_index < idx
        /\ pc = "loop" => cmp = NoCompare
        /\ pc \in {"loop", "comparing"} =>
              \A j, k \in DOMAIN results :
                 j < k => results[j].reg_index < results[k].reg_index
        /\ llm.status = "in_flight" => pc = "comparing"

\* the second comparison is in flight after the first one was collected
C20_Witness ==
    /\ op = "find_similar" /\ pc = "comparing"
    /\ idx = 2 /\ Len(results) = 1
    /\ cmp.stage = "reasoning"

-----------------------------------------------------------------------------
\* C21: a comparison posts at most two scoring requests, one for the problem
\* pattern and then one for the reasoning, never the same request twice, and
\* none without an api key; a find_similar that returned with an api key has
\* posted exactly two requests per registry entry whose name differs from the
\* query's, and none for an entry with the query's name.
C21_TwoRequestsPerComparison ==
    LET reqs    == net.requests
        NonSelf == {j \in DOMAIN registry : IdentityName(registry[j]) # IdentityName(card)}
    IN  /\ ~api_key => reqs = <<>>
        /\ \A i \in DOMAIN reqs, k \in DOMAIN reqs : i # k => reqs[i] # reqs[k]
        /\ \A i \in DOMAIN reqs : reqs[i].candidate \in NonSelf
        /\ \A i \in DOMAIN reqs :
              IF i % 2 = 1
              THEN reqs[i].dimension = "problem_pattern"
              ELSE /\ reqs[i].dimension = "reasoning"
                   /\ reqs[i].candidate = reqs[i - 1].candidate
        /\ (pc = "done" /\ api_key) => Len(reqs) = 2 * Cardinality(NonSelf)

\* a search over a self entry and another entry returned after two requests,
\* one of which failed
C21_Witness ==
    /\ pc = "done" /\ api_key /\ Len(registry) = 2
    /\ \E j \in DOMAIN registry : IdentityName(registry[j]) = IdentityName(card)
    /\ Len(net.requests) = 2
    /\ Len(stdout) = 1

-----------------------------------------------------------------------------
\* C22: a client is open only while its one request is in flight: once a
\* scoring call has returned (with the remote score or with the fallback) or
\* was cancelled, no client is open, so every comparison starts and ends with
\* none open.
C22_ConnectionScopedPerRequest ==
    /\ net.open = (IF llm.status = "in_flight" THEN 1 ELSE 0)
    /\ (pc \in {"loop", "done", "raised"} \/ cmp.stage \in {"called", "returned"})
            => net.open = 0

\* the second comparison of a search has its request in flight after a request
\* of the first comparison failed
C22_Witness ==
    /\ pc = "comparing" /\ idx = 2 /\ llm.status = "in_flight"
    /\ Len(net.requests) = 3 /\ stdout # <<>>
    /\ net.open = 1

-----------------------------------------------------------------------------
\* C23: a find_similar that is cancelled while a request is in flight raises
\* and returns nothing, whatever matches it had collected; a list is returned
\* only by a run that was not cancelled and examined every registry entry, and
\* it is then the sorted, truncated list of all its matches.
C23_CancelledReturnsNothing ==
    /\ llm.status = "cancelled" => (pc = "raised" /\ error = "CancelledError")
    /\ pc # "done" => ret = <<>>
    /\ pc = "done" => /\ llm.status # "cancelled"
                      /\ idx = Len(registry) + 1
                      /\ ret = SlicePrefix(SortByScoreDesc(results), max_results)

\* the run was cancelled during its second comparison, with a match of the
\* first comparison already collected
C23_Witness ==
    /\ error = "CancelledError" /\ pc = "raised"
    /\ idx = 2 /\ Len(results) = 1
    /\ ret = <<>>

-----------------------------------------------------------------------------
\* C24: when the remote service never responds, every request ends by its
\* timeout and is scored by the fallback, so compare and find_similar
\* eventually return: each request posted has printed one fallback line and
\* the call has a result.
C24_TerminatesDespiteSilentRemote ==
    <>(pc = "done" /\ Len(stdout) = Len(net.requests) /\ net.open = 0)

\* a search over two non-self entries returned after its four requests timed out
C24_Witness ==
    /\ op = "find_similar" /\ pc = "done"
    /\ Len(net.requests) = 4 /\ Len(stdout) = 4
    /\ llm.path = "fallback"

-----------------------------------------------------------------------------
(* C25 .. C28: the four deterministic calculators against their formulas,   *)
(* on the breakdown compare() returned                                       *)

\* a compare() call has returned its breakdown in `ret`
Compared == op = "compare" /\ pc = "done"

\* the two descriptors of the call, as parse_card reads them
ComparedA == parse_card(cmp.card_a.val)

ComparedB == parse_card(cmp.card_b.val)

\* n1/d1 scaled by w1 hundredths plus n2/d2 scaled by w2 hundredths, ...
Scaled(w, x) == Rat(w * x[1], 100 * x[2])

\* |A n B| / |A u B|, and 1 when both sets are empty
SetJaccard(A, B) ==
    IF A \cup B = {} THEN <<1, 1>> ELSE Rat(Cardinality(A \cap B), Cardinality(A \cup B))

\* C25: sub-pattern overlap is 0.4 x the Jaccard of the exact tag sets plus
\* 0.6 x the token overlap of the tag lists (rounded to 3 decimals); identical
\* tag lists score 1.0, and so do two descriptors without any tag
C25_SubPatternBlend ==
    Compared =>
        LET tags_a == ComparedA.sub_patterns
            tags_b == ComparedB.sub_patterns
            exact  == SetJaccard(Range(tags_a), Range(tags_b))
            token  == SetJaccard(tokenize(tags_a), tokenize(tags_b))
        IN  /\ ret.sub_pattern_overlap = Round3(RAdd(Scaled(40, exact), Scaled(60, token)))
            /\ tags_a = tags_b => ret.sub_pattern_overlap = 1000
            /\ (tags_a = <<>> /\ tags_b = <<>>) => ret.sub_pattern_overlap = 1000

\* two tag lists that share one tag of two and two tokens of four:
\* 0.4 x 1/3 + 0.6 x 1/2 = 0.433
C25_Witness ==
    /\ Compared
    /\ Cardinality(Range(ComparedA.sub_patterns) \cap Range(ComparedB.sub_patterns)) = 1
    /\ Cardinality(Range(ComparedA.sub_patterns) \cup Range(ComparedB.sub_patterns)) = 3
    /\ ret.sub_pattern_overlap = 433

DeclaredAssumptions(raw) ==
    LET assumptions == Get(raw.val, "domain_assumptions", <<>>)
    IN  Get(assumptions, "data_assumptions", <<>>)
        \o Get(assumptions, "environment_assumptions", <<>>)
        \o Get(assumptions, "authority_assumptions", <<>>)

\* the adaptation points a raw card declares
DeclaredPoints(raw) == Get(raw.val, "adaptation_points", <<>>)

\* how many entries of the list have value v under key (default when absent)
CountEntries(entries, key, default, v) ==
    Cardinality({j \in DOMAIN entries : Get(entries[j], key, default) = v})

\* soft entries / declared entries of a list, 0 for an empty list
RatioOf(entries, key, default, v) ==
    Rat(CountEntries(entries, key, default, v), Max(Len(entries), 1))

Half(x) == Rat(x[1], 2 * x[2])

\* C27: adaptation portability is 0.35 x average softness + 0.40 x average
\* swappable ratio + 0.25 x min(combined adaptation-point count / 8, 1), each
\* ratio taken over every assumption, resp. adaptation point, the descriptor
\* declares, entries that share or lack an id included
C27_AdaptationCountsEveryEntry ==
    Compared =>
        LET soft_a == RatioOf(DeclaredAssumptions(cmp.card_a), "strength", "soft", "soft")
            soft_b == RatioOf(DeclaredAssumptions(cmp.card_b), "strength", "soft", "soft")
            swap_a == RatioOf(DeclaredPoints(cmp.card_a), "type", <<>>, "swappable_component")
            swap_b == RatioOf(DeclaredPoints(cmp.card_b), "type", <<>>, "swappable_component")
            count  == RMin(Rat(Len(DeclaredPoints(cmp.card_a))
                               + Len(DeclaredPoints(cmp.card_b)), 8), <<1, 1>>)
        IN  ret.adaptation_portability =
                Round3(RAdd(Scaled(35, Half(RAdd(soft_a, soft_b))),
                       RAdd(Scaled(40, Half(RAdd(swap_a, swap_b))), Scaled(25, count))))

\* C28: composition compatibility is 0.40 x the token overlap of the two
\* sides' emitted and consumed event names + 0.35 x directional composability
\* + 0.25 x the token overlap of the delegate-interface names; directional
\* composability is the larger of |A-emits n B-consumes| / max(|B-consumes|, 1)
\* and |B-emits n A-consumes| / max(|A-consumes|, 1), and 0 when neither side
\* emits an event the other consumes
C28_CompositionWeightedSum ==
    Compared =>
        LET a == ComparedA
            b == ComparedB
            events == SetJaccard(tokenize(a.emitted_events \o a.consumed_events),
                                 tokenize(b.emitted_events \o b.consumed_events))
            a_to_b == Rat(Cardinality(Range(a.emitted_events) \cap Range(b.consumed_events)),
                          Max(Cardinality(Range(b.consumed_events)), 1))
            b_to_a == Rat(Cardinality(Range(b.emitted_events) \cap Range(a.consumed_events)),
                          Max(Cardinality(Range(a.consumed_events)), 1))
            larger == IF RLeq(a_to_b, b_to_a) THEN b_to_a ELSE a_to_b
            interfaces == SetJaccard(tokenize(a.delegate_interfaces),
                                     tokenize(b.delegate_interfaces))
        IN  /\ ret.composition_compatibility =
                  Round3(RAdd(Scaled(40, events),
                         RAdd(Scaled(35, larger), Scaled(25, interfaces))))
            /\ (/\ Range(a.emitted_events) \cap Range(b.consumed_events) = {}
                /\ Range(b.emitted_events) \cap Range(a.consumed_events) = {})
               => ret.composition_compatibility =
                     Round3(RAdd(Scaled(40, events), Scaled(25, interfaces)))

\* one side emits one of the two events the other consumes, and consumes
\* nothing the other emits: 0.40 x 2/5 + 0.35 x max(1/2, 0) + 0.25 x 0 = 0.335
C28_Witness ==
    /\ Compared
    /\ Cardinality(Range(ComparedB.consumed_events)) = 2
    /\ Cardinality(Range(ComparedA.emitted_events) \cap Range(ComparedB.consumed_events)) = 1
    /\ Range(ComparedB.emitted_events) \cap Range(ComparedA.consumed_events) = {}
    /\ ret.composition_compatibility = 335

-----------------------------------------------------------------------------
(* C29: compare(A, B) against compare(B, A) *)

\* compare(B, A) has returned after compare(A, B) did on the same engine
ComparedBothWays ==
    /\ Compared /\ prev.calls = 1
    /\ cmp.card_a = prev.card_b /\ cmp.card_b = prev.card_a

\* C29: without an api key compare(A, B) and compare(B, A) give the same
\* value on each of the six dimensions and the same composite score
C29_OfflineCompareSymmetric ==
    (Compared /\ prev.calls = 1) =>
        /\ cmp.card_a = prev.card_b /\ cmp.card_b = prev.card_a
        /\ llm.path = "offline"
        /\ \A d \in Range(Dimensions) : ret[d] = prev.ret[d]
        /\ composite_score(ret) = composite_score(prev.ret)

\* two different descriptors of which the second emits one of the two events
\* the first consumes: the direction that scores is the other one after the swap
C29_Witness ==
    /\ ComparedBothWays
    /\ prev.card_a # prev.card_b
    /\ Range(ComparedA.emitted_events) \cap Range(ComparedB.consumed_events) # {}
    /\ Range(ComparedB.emitted_events) \cap Range(ComparedA.consumed_events) = {}
    /\ Cardinality(Range(ComparedB.consumed_events)) = 2
    /\ ret.composition_compatibility = 335
    /\ prev.ret.composition_compatibility = 335

-----------------------------------------------------------------------------
(* C30: find_similar with a query card that has no identity name *)

\* .get("identity", {}).get("name") is None
Nameless(c) == IdentityName(c) = NoneVal

\* the loop of find_similar_async is at a registry entry it can read
AtEntry ==
    /\ op = "find_similar" /\ pc = "loop" /\ idx <= Len(registry)
    /\ ~IdentityRaises(registry[idx]) /\ ~IdentityRaises(card)

\* C30: when the query card has no identity name, a registry entry without an
\* identity name is passed over as a self-match and no comparison is started
\* for it, an entry with a name is compared, and if no entry has a name the
\* list returned is empty
C30_NamelessQuerySkipsNameless ==
    [][ (op = "find_similar" /\ ~IdentityRaises(card) /\ Nameless(card)) =>
          /\ (AtEntry /\ Nameless(registry[idx])) =>
                /\ idx' = idx + 1 /\ pc' = "loop"
                /\ results' = results /\ cmp' = cmp /\ llm' = llm /\ net' = net
          /\ (AtEntry /\ ~Nameless(registry[idx])) =>
                /\ pc' = "comparing" /\ idx' = idx
                /\ cmp' = [stage |-> "called", card_a |-> card, card_b |-> registry[idx]]
          /\ (pc # "comparing" /\ pc' = "comparing") => ~Nameless(registry[idx])
          /\ pc' = "done" =>
                /\ \A m \in Range(ret') : ~Nameless(registry[m.reg_index])
                /\ (\A j \in DOMAIN registry : Nameless(registry[j])) => ret' = <<>>
      ]_vars

\* a nameless query, a registry with a nameless entry and a named one: only
\* the named one is returned
C30_Witness ==
    /\ op = "find_similar" /\ pc = "done"
    /\ Nameless(card)
    /\ Len(registry) = 2
    /\ Nameless(registry[1]) /\ ~Nameless(registry[2])
    /\ Len(ret) = 1 /\ ret[1].reg_index = 2

====
